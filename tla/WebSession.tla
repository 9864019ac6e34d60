----------------------------- MODULE WebSession -----------------------------
(***************************************************************************)
(* Signing in and out in the tabs of one browser.  The token is in local   *)
(* storage, which the tabs share; the session a tab shows is in its memory *)
(* (AuthProvider) and was taken from an answer of the control plane.  Each *)
(* request is sent with the token stored at that moment, and any answer    *)
(* 401 removes whatever token is stored when it arrives.                   *)
(***************************************************************************)
EXTENDS Naturals, FiniteSets

CONSTANTS
    Tab, User,
    Token,   \* the tokens the control plane may issue, each once
    Null

VARIABLES
    token,    \* what local storage holds: a token, or Null
    owner,    \* owner[k]: the user token k was issued to, Null before
    expired,  \* the tokens the control plane no longer accepts
    where,    \* where[t]: the page of tab t
    session,  \* session[t]: the user tab t shows as signed in, or Null
    loading,  \* loading[t]: the tab does not know yet
    me,       \* me[t]: the request that restores the session of tab t
    login,    \* the tabs with a request of the sign-in form under way
    call,     \* call[t]: a request of the open page
    writer,   \* history: the tab that last wrote local storage, Null when it
              \* did because the control plane refused a request
    late      \* history: tabs that learnt of a token no longer stored

ASSUME SessionAssumption == Null \notin Tab \cup User \cup Token

vars == <<token, owner, expired, where, session, loading, me, login, call,
          writer, late>>

Request == [at : {"idle", "sent"}, with : Token \cup {Null}]
Idle == [at |-> "idle", with |-> Null]
\* A request under way, with the token it was sent with.
Sent(k) == [at |-> "sent", with |-> k]

TypeOK ==
    /\ token \in Token \cup {Null}
    /\ owner \in [Token -> User \cup {Null}]
    /\ expired \subseteq {k \in Token : owner[k] # Null}
    /\ token # Null => owner[token] # Null
    /\ where \in [Tab -> {"closed", "login", "app"}]
    /\ session \in [Tab -> User \cup {Null}]
    /\ loading \in [Tab -> BOOLEAN]
    /\ me \in [Tab -> Request]
    /\ login \subseteq Tab
    /\ call \in [Tab -> Request]
    /\ writer \in Tab \cup {Null}
    /\ late \subseteq Tab

Init ==
    /\ token = Null
    /\ owner = [k \in Token |-> Null]
    /\ expired = {}
    /\ where = [t \in Tab |-> "closed"]
    /\ session = [t \in Tab |-> Null]
    /\ loading = [t \in Tab |-> FALSE]
    /\ me = [t \in Tab |-> Idle]
    /\ login = {}
    /\ call = [t \in Tab |-> Idle]
    /\ writer = Null
    /\ late = {}

------------------------------------------------------------------------------
(* Helpers *)

\* setToken and clearToken, on behalf of tab t.
Store(t, k) == token' = k /\ writer' = t

\* The control plane accepts token k.
Accepted(k) == k # Null /\ k \notin expired

\* The sign-in page, whose button is disabled while a request is under way.
CanSubmit(t) == where[t] = "login" /\ t \notin login

\* The pages of the application are shown: the layout has a session.
Shown(t) == where[t] = "app" /\ ~loading[t] /\ session[t] # Null

\* The answer about the session comes after the stored token has changed.
Late(t) == IF me[t].with # token THEN late \cup {t} ELSE late

------------------------------------------------------------------------------
(* The life of a tab *)

\* A tab is opened or reloaded on page p: what it held in memory is gone, its
\* requests with it, and the provider asks who is signed in if there is a token.
Load(t, p) ==
    /\ where' = [where EXCEPT ![t] = p]
    /\ session' = [session EXCEPT ![t] = Null]
    /\ loading' = [loading EXCEPT ![t] = token # Null]
    /\ me' = [me EXCEPT ![t] = IF token = Null THEN Idle ELSE Sent(token)]
    /\ login' = login \ {t}
    /\ call' = [call EXCEPT ![t] = Idle]
    /\ late' = late \ {t}
    /\ UNCHANGED <<token, owner, expired, writer>>

\* The session is restored.
MeAnswers(t) ==
    /\ me[t] # Idle /\ Accepted(me[t].with)
    /\ session' = [session EXCEPT ![t] = owner[me[t].with]]
    /\ late' = Late(t)
    /\ me' = [me EXCEPT ![t] = Idle]
    /\ loading' = [loading EXCEPT ![t] = FALSE]
    /\ UNCHANGED <<token, owner, expired, where, login, call, writer>>

\* Faulty variant: nobody is told that the request has ended.
MeFails_StillLoading(t) ==
    /\ me[t] # Idle
    /\ Store(t, Null)
    /\ late' = Late(t)
    /\ me' = [me EXCEPT ![t] = Idle]
    /\ UNCHANGED <<owner, expired, where, session, loading, login, call>>

\* The token is refused, or the request fails: either way it is removed, and
\* with it one that was stored meanwhile.
MeFails(t) ==
    /\ me[t] # Idle
    /\ Store(t, Null)
    /\ late' = Late(t)
    /\ me' = [me EXCEPT ![t] = Idle]
    /\ loading' = [loading EXCEPT ![t] = FALSE]
    /\ UNCHANGED <<owner, expired, where, session, login, call>>

\* The layout of the application sends a tab nobody is signed in at away, and
\* the sign-in page one where somebody is.
Redirect(t) ==
    /\ \/ /\ where[t] = "app" /\ ~loading[t] /\ session[t] = Null
          /\ where' = [where EXCEPT ![t] = "login"]
       \/ /\ where[t] = "login" /\ session[t] # Null
          /\ where' = [where EXCEPT ![t] = "app"]
    /\ UNCHANGED <<token, owner, expired, session, loading, me, login, call,
                   writer, late>>

------------------------------------------------------------------------------
(* Signing in and out *)

Submit(t) ==
    /\ CanSubmit(t)
    /\ login' = login \cup {t}
    /\ UNCHANGED <<token, owner, expired, where, session, loading, me, call,
                   writer, late>>

\* The credentials are right, those of u: the token is stored, the session set
\* and the first page opened.
LoginAnswers(t, k, u) ==
    /\ t \in login /\ owner[k] = Null
    /\ owner' = [owner EXCEPT ![k] = u]
    /\ Store(t, k)
    /\ session' = [session EXCEPT ![t] = u]
    /\ where' = [where EXCEPT ![t] = "app"]
    /\ login' = login \ {t}
    /\ late' = late \ {t}
    /\ UNCHANGED <<expired, loading, me, call>>

\* They are wrong: the answer is 401, and request removes the stored token.
LoginRefused(t) ==
    /\ t \in login
    /\ Store(Null, Null)
    /\ login' = login \ {t}
    /\ UNCHANGED <<owner, expired, where, session, loading, me, call, late>>

LoginFails(t) ==
    /\ t \in login
    /\ login' = login \ {t}
    /\ UNCHANGED <<token, owner, expired, where, session, loading, me, call,
                   writer, late>>

\* Faulty variant: signing out forgets the user and keeps the token.
Logout_KeepsToken(t) ==
    /\ Shown(t)
    /\ session' = [session EXCEPT ![t] = Null]
    /\ UNCHANGED <<token, owner, expired, where, loading, me, login, call,
                   writer, late>>

\* The buttons of the top bar and of the account tab.
Logout(t) ==
    /\ Shown(t)
    /\ Store(t, Null)
    /\ session' = [session EXCEPT ![t] = Null]
    /\ UNCHANGED <<owner, expired, where, loading, me, login, call, late>>

------------------------------------------------------------------------------
(* Other requests *)

Call(t) ==
    /\ Shown(t) /\ call[t] = Idle
    /\ call' = [call EXCEPT ![t] = Sent(token)]
    /\ UNCHANGED <<token, owner, expired, where, session, loading, me, login,
                   writer, late>>

\* Refused: the token is removed, the session stays.
CallRefused(t) ==
    /\ call[t] # Idle /\ ~Accepted(call[t].with)
    /\ Store(Null, Null)
    /\ call' = [call EXCEPT ![t] = Idle]
    /\ UNCHANGED <<owner, expired, where, session, loading, me, login, late>>

\* Served, or failed in another way.
CallEnds(t) ==
    /\ call[t] # Idle
    /\ call' = [call EXCEPT ![t] = Idle]
    /\ UNCHANGED <<token, owner, expired, where, session, loading, me, login,
                   writer, late>>

Expire(k) ==
    /\ owner[k] # Null /\ k \notin expired
    /\ expired' = expired \cup {k}
    /\ UNCHANGED <<token, owner, where, session, loading, me, login, call,
                   writer, late>>

------------------------------------------------------------------------------
(* The specification *)

Restores(t) == MeAnswers(t) \/ MeFails(t)
SignsIn(t) == \/ Submit(t)
              \/ \E k \in Token, u \in User : LoginAnswers(t, k, u)
              \/ LoginRefused(t) \/ LoginFails(t)
Calls(t) == Call(t) \/ CallRefused(t) \/ CallEnds(t)

Next ==
    \/ \E t \in Tab : \/ \E p \in {"login", "app"} : Load(t, p)
                      \/ Restores(t) \/ Redirect(t)
                      \/ SignsIn(t) \/ Logout(t) \/ Calls(t)
    \/ \E k \in Token : Expire(k)

Spec == Init /\ [][Next]_vars

\* Strong fairness, as a user may reload again and again: the request a tab
\* begins with ends before some reload, and so does a redirection.
FairSpec == Spec /\ \A t \in Tab : SF_vars(Restores(t)) /\ SF_vars(Redirect(t))

------------------------------------------------------------------------------
(* Properties *)

\* The user a tab shows is the one its requests are made as, and a tab that
\* shows nobody holds no token, unless another tab was the last to write local
\* storage, the control plane has refused a request, or the answer about the
\* session to restore came when another token was stored.  In particular, for
\* one tab without refusals and crossed requests what is shown is what is
\* stored.
TokenMatchesSession ==
    \A t \in Tab :
       \/ where[t] = "closed" \/ loading[t]
       \/ writer # t \/ t \in late
       \/ session[t] = (IF token = Null THEN Null ELSE owner[token])

\* No tab is left on the spinner or on the wrong page: it comes to show the
\* application to somebody or the sign-in form to nobody.
TabsSettle ==
    \A t \in Tab :
       where[t] # "closed" ~>
          \/ where[t] = "closed"
          \/ Shown(t)
          \/ where[t] = "login" /\ session[t] = Null /\ ~loading[t]

=============================================================================
