---------------------------- MODULE MCWebQueries ----------------------------
(* Tours for TLC: keys that one write reaches or one page observes, with   *)
(* the pages that observe them and those that make the writes.  Each page  *)
(* and each key is in one of them.                                         *)
EXTENDS WebQueries

T(keys, pages, max) == [keys |-> keys, pages |-> pages, max |-> max]

Tours ==
    {T(<< <<"alerts", "all">>, <<"alerts", "open">> >>,
       {"alerts", "openAlerts"}, 2),
     T(<< <<"alerts">>, <<"alert", "id">> >>, {"dashboard", "alert"}, 1),
     T(<< <<"permits">>, <<"compliance">> >>, {"permits", "members"}, 1),
     T(<< <<"detections">>, <<"detections", "id">> >>,
       {"permits", "watchAreas", "watchArea"}, 1),
     T(<< <<"collections">>, <<"scenes", "any">> >>, {"library", "projects"}, 1),
     T(<< <<"scenes", "one">>, <<"scenes-all">> >>,
       {"library", "collection", "dashboard"}, 1),
     T(<< <<"scenes-all-det">>, <<"models">> >>, {"library", "detection"}, 1),
     T(<< <<"projects">> >>, {"projects", "members"}, 2),
     T(<< <<"api-keys">>, <<"audit">> >>, {"apiKeys", "audit"}, 1),
     T(<< <<"members">> >>, {"members", "audit"}, 2),
     T(<< <<"watch-areas">> >>, {"watchAreas", "watchArea"}, 2),
     T(<< <<"compliance">> >>, {"detection", "dashboard"}, 2),
     T(<< <<"jobs">> >>, {"jobs", "library"}, 2),
     T(<< <<"analytics">> >>, {"analytics", "alerts"}, 1)}
=============================================================================
