------------------------- MODULE SessionFormsProofs --------------------------
(***************************************************************************)
(* Proofs about WebSession, for any number of tabs, users and tokens, and  *)
(* about WebForms, for any texts, points and bounds.                       *)
(***************************************************************************)
EXTENDS WebSession, WebForms, TLAPS

-----------------------------------------------------------------------------
(* The session *)

\* A tab is loading exactly while its first request is under way; that request
\* carries a token that was issued, and once the tab has signed in meanwhile it
\* is not the one stored, for no token is issued twice.
RestoringIsOld ==
    \A t \in Tab :
      /\ loading[t] <=> me[t].at = "sent"
      /\ me[t] # Idle => /\ me[t].at = "sent"
                         /\ me[t].with \in Token
                         /\ owner[me[t].with] # Null
      /\ me[t] # Idle /\ session[t] # Null => me[t].with # token

Inv == TypeOK /\ RestoringIsOld /\ TokenMatchesSession

LEMMA InitInv == Init => Inv
<1> SUFFICES ASSUME Init PROVE Inv
  OBVIOUS
<1> USE SessionAssumption DEF Init, Idle
<1>1. TypeOK
  <2>1. Idle \in Request
    BY DEF Request
  <2>2. QED
    BY <2>1 DEF TypeOK
<1>2. RestoringIsOld
  BY DEF RestoringIsOld
<1>3. TokenMatchesSession
  BY DEF TokenMatchesSession
<1>4. QED
  BY <1>1, <1>2, <1>3 DEF Inv

\* Every handler keeps the types of the state.
LEMMA NextTyped == TypeOK /\ [Next]_vars => TypeOK'
<1> SUFFICES ASSUME TypeOK, [Next]_vars PROVE TypeOK'
  OBVIOUS
<1> USE SessionAssumption DEF TypeOK, Request, Idle, Sent
<1>1. ASSUME NEW t \in Tab, NEW p \in {"login", "app"}, Load(t, p)
      PROVE  TypeOK'
  BY <1>1 DEF Load
<1>2. ASSUME NEW t \in Tab, MeAnswers(t) PROVE TypeOK'
  BY <1>2 DEF MeAnswers, Late, Accepted
<1>3. ASSUME NEW t \in Tab, MeFails(t) PROVE TypeOK'
  BY <1>3 DEF MeFails, Late, Store
<1>4. ASSUME NEW t \in Tab, Redirect(t) PROVE TypeOK'
  BY <1>4 DEF Redirect
<1>5. ASSUME NEW t \in Tab, Submit(t) PROVE TypeOK'
  BY <1>5 DEF Submit
<1>6. ASSUME NEW t \in Tab, NEW k \in Token, NEW u \in User,
             LoginAnswers(t, k, u)
      PROVE  TypeOK'
  BY <1>6 DEF LoginAnswers, Store
<1>7. ASSUME NEW t \in Tab, LoginRefused(t) \/ LoginFails(t) PROVE TypeOK'
  BY <1>7 DEF LoginRefused, LoginFails, Store
<1>8. ASSUME NEW t \in Tab, Logout(t) PROVE TypeOK'
  BY <1>8 DEF Logout, Store
<1>9. ASSUME NEW t \in Tab, Calls(t) PROVE TypeOK'
  BY <1>9 DEF Calls, Call, CallRefused, CallEnds, Store
<1>10. ASSUME NEW k \in Token, Expire(k) PROVE TypeOK'
  BY <1>10 DEF Expire
<1>11. CASE UNCHANGED vars
  BY <1>11 DEF vars
<1>12. QED
  BY <1>1, <1>2, <1>3, <1>4, <1>5, <1>6, <1>7, <1>8, <1>9, <1>10, <1>11
     DEF Next, Restores, SignsIn

\* Only Load starts the request that restores a session, with the token it
\* finds; a sign-in stores a token that no request carries yet.
LEMMA NextRestoring == Inv /\ [Next]_vars => RestoringIsOld'
<1> SUFFICES ASSUME Inv, [Next]_vars PROVE RestoringIsOld'
  OBVIOUS
<1> USE SessionAssumption DEF Inv, TypeOK, Request, Idle, Sent, RestoringIsOld
<1>1. ASSUME NEW t \in Tab, NEW p \in {"login", "app"}, Load(t, p)
      PROVE  RestoringIsOld'
  BY <1>1 DEF Load
<1>2. ASSUME NEW t \in Tab, MeAnswers(t) PROVE RestoringIsOld'
  BY <1>2 DEF MeAnswers
<1>3. ASSUME NEW t \in Tab, MeFails(t) PROVE RestoringIsOld'
  BY <1>3 DEF MeFails, Store
<1>4. ASSUME NEW t \in Tab, Redirect(t) PROVE RestoringIsOld'
  BY <1>4 DEF Redirect
<1>5. ASSUME NEW t \in Tab, Submit(t) PROVE RestoringIsOld'
  BY <1>5 DEF Submit
<1>6. ASSUME NEW t \in Tab, NEW k \in Token, NEW u \in User,
             LoginAnswers(t, k, u)
      PROVE  RestoringIsOld'
  BY <1>6 DEF LoginAnswers, Store
<1>7. ASSUME NEW t \in Tab, LoginRefused(t) \/ LoginFails(t)
      PROVE  RestoringIsOld'
  BY <1>7 DEF LoginRefused, LoginFails, Store
<1>8. ASSUME NEW t \in Tab, Logout(t) PROVE RestoringIsOld'
  BY <1>8 DEF Logout, Store
<1>9. ASSUME NEW t \in Tab, Calls(t) PROVE RestoringIsOld'
  BY <1>9 DEF Calls, Call, CallRefused, CallEnds, Store
<1>10. ASSUME NEW k \in Token, Expire(k) PROVE RestoringIsOld'
  BY <1>10 DEF Expire
<1>11. CASE UNCHANGED vars
  BY <1>11 DEF vars
<1>12. QED
  BY <1>1, <1>2, <1>3, <1>4, <1>5, <1>6, <1>7, <1>8, <1>9, <1>10, <1>11
     DEF Next, Restores, SignsIn

\* A handler writes local storage on behalf of its own tab only, and leaves that
\* tab with the session of what it wrote.
LEMMA NextMatches == Inv /\ [Next]_vars => TokenMatchesSession'
<1> SUFFICES ASSUME Inv, [Next]_vars PROVE TokenMatchesSession'
  OBVIOUS
<1> USE SessionAssumption
    DEF Inv, TypeOK, Request, Idle, Sent, RestoringIsOld, TokenMatchesSession
<1>1. ASSUME NEW t \in Tab, NEW p \in {"login", "app"}, Load(t, p)
      PROVE  TokenMatchesSession'
  BY <1>1 DEF Load
<1>2. ASSUME NEW t \in Tab, MeAnswers(t) PROVE TokenMatchesSession'
  BY <1>2 DEF MeAnswers, Late, Accepted
<1>3. ASSUME NEW t \in Tab, MeFails(t) PROVE TokenMatchesSession'
  BY <1>3 DEF MeFails, Late, Store
<1>4. ASSUME NEW t \in Tab, Redirect(t) PROVE TokenMatchesSession'
  BY <1>4 DEF Redirect
<1>5. ASSUME NEW t \in Tab, Submit(t) PROVE TokenMatchesSession'
  BY <1>5 DEF Submit
<1>6. ASSUME NEW t \in Tab, NEW k \in Token, NEW u \in User,
             LoginAnswers(t, k, u)
      PROVE  TokenMatchesSession'
  BY <1>6 DEF LoginAnswers, Store
<1>7. ASSUME NEW t \in Tab, LoginRefused(t) \/ LoginFails(t)
      PROVE  TokenMatchesSession'
  BY <1>7 DEF LoginRefused, LoginFails, Store
<1>8. ASSUME NEW t \in Tab, Logout(t) PROVE TokenMatchesSession'
  BY <1>8 DEF Logout, Store
<1>9. ASSUME NEW t \in Tab, Calls(t) PROVE TokenMatchesSession'
  BY <1>9 DEF Calls, Call, CallRefused, CallEnds, Store
<1>10. ASSUME NEW k \in Token, Expire(k) PROVE TokenMatchesSession'
  BY <1>10 DEF Expire
<1>11. CASE UNCHANGED vars
  BY <1>11 DEF vars
<1>12. QED
  BY <1>1, <1>2, <1>3, <1>4, <1>5, <1>6, <1>7, <1>8, <1>9, <1>10, <1>11
     DEF Next, Restores, SignsIn

LEMMA SessionInvariant == Spec => []Inv
<1>1. Inv /\ [Next]_vars => Inv'
  BY NextTyped, NextRestoring, NextMatches DEF Inv
<1>2. QED
  BY InitInv, <1>1, PTL DEF Spec

\* The state of every tab, and of the storage they share, is typed.
THEOREM SessionTyped == Spec => []TypeOK
<1>1. Inv => TypeOK
  BY DEF Inv
<1>2. QED
  BY <1>1, SessionInvariant, PTL

\* What a tab shows is what it stored, with the exceptions the property names
\* (AuthProvider in auth.tsx, request in api.ts).
THEOREM SessionsAgree == Spec => []TokenMatchesSession
<1>1. Inv => TokenMatchesSession
  BY DEF Inv
<1>2. QED
  BY <1>1, SessionInvariant, PTL

-----------------------------------------------------------------------------
(* The forms: what the invariant says *)

\* What the proofs need of the types.
Shaped ==
    /\ form \in Form
    /\ DOMAIN fields = Fields(form)
    /\ map # "none" => form = "area"
    /\ reading => form = "permits"
    /\ older \in Nat /\ (form # "area" => older = 0)

\* A map that has drawn is loaded and shows the points, whose shape is reported.
SeenIsDrawn ==
    seen => /\ map = "loaded"
            /\ picture = points
            /\ fields["geom"] = Ring(points, mode)

\* What has been sent last, and has not failed, is still under way or has been emptied.
SentIsGone ==
    sent /\ ~pending => \E x \in Forms[form].required : fields[x] = None

FormsInv == Shaped /\ SeenIsDrawn /\ SentIsGone

------------------------------------------------------------------------------
(* The forms *)

\* Every form requires a field, and empties all those it requires.
LEMMA RequiredAreEmptied ==
  ASSUME NEW f \in Form
  PROVE  /\ \E x \in Forms[f].required : x \in Fields(f) \ Forms[f].kept
         /\ Forms[f].required \subseteq Fields(f)
<1>1. CASE f = "ingest"
  BY <1>1 DEF Forms, Fields, IngestForm
<1>2. CASE f = "project"
  BY <1>2 DEF Forms, Fields, ProjectForm
<1>3. CASE f = "apiKey"
  BY <1>3 DEF Forms, Fields, ApiKeyForm
<1>4. CASE f = "permits"
  BY <1>4 DEF Forms, Fields, PermitsForm
<1>5. CASE f = "area"
  BY <1>5 DEF Forms, Fields, AreaForm
<1>6. QED
  BY <1>1, <1>2, <1>3, <1>4, <1>5 DEF Form, Forms

LEMMA AreaHasShape == "geom" \in Fields("area")
  BY DEF Fields, Forms, AreaForm

LEMMA PermitsHaveText == "text" \in Fields("permits")
  BY DEF Fields, Forms, PermitsForm

------------------------------------------------------------------------------
(* The invariant *)

LEMMA InitFormsInv == FormsInit => FormsInv
<1> SUFFICES ASSUME FormsInit PROVE FormsInv
  OBVIOUS
<1>1. Shaped
  BY DEF FormsInit, Shaped, Untouched
<1>2. SeenIsDrawn /\ SentIsGone
  BY DEF FormsInit, SeenIsDrawn, SentIsGone
<1>3. QED
  BY <1>1, <1>2 DEF FormsInv

\* The modal opens or closes, and the page is left.
LEMMA ModalInv == ASSUME FormsInv, Open \/ Cancel \/ LeavePage PROVE FormsInv'
<1> USE DEF FormsInv
<1>1. CASE Open
  BY <1>1 DEF Open, requests, Shaped, SeenIsDrawn, SentIsGone
<1>2. CASE Cancel
  BY <1>2 DEF Cancel, Closed, requests, Shaped, SeenIsDrawn, SentIsGone
<1>3. CASE LeavePage
  BY <1>3 DEF LeavePage, Closed, Untouched, Shaped, SeenIsDrawn, SentIsGone
<1>4. QED
  BY <1>1, <1>2, <1>3

LEMMA TypeInv ==
  ASSUME FormsInv,
         \/ \E x \in Fields(form), v \in Text \cup {None} : Type(x, v)
         \/ ChooseFile
         \/ \E v \in Text : FileRead(v)
  PROVE  FormsInv'
<1> USE DEF FormsInv
<1>1. ASSUME NEW x \in Fields(form), NEW v \in Text \cup {None}, Type(x, v)
      PROVE  FormsInv'
  BY <1>1 DEF Type, drawing, requests, Shaped, SeenIsDrawn, SentIsGone
<1>2. CASE ChooseFile
  BY <1>2 DEF ChooseFile, drawing, requests, Shaped, SeenIsDrawn, SentIsGone
<1>3. ASSUME NEW v \in Text, FileRead(v) PROVE FormsInv'
  BY <1>3 DEF FileRead, drawing, requests, Shaped, SeenIsDrawn, SentIsGone
<1>4. QED
  BY <1>1, <1>2, <1>3

\* Whatever is drawn is reported at once, and shown if the map is loaded.
LEMMA DrawInv ==
  ASSUME FormsInv, NEW p, NEW mo, Draw(p, mo)
  PROVE  FormsInv'
<1> USE DEF FormsInv
<1>1. form = "area" /\ "geom" \in DOMAIN fields
  BY AreaHasShape DEF Draw, Shaped
<1>2. Shaped'
  BY <1>1 DEF Draw, requests, Shaped
<1>3. fields'["geom"] = Ring(p, mo)
  BY <1>1 DEF Draw
<1>4. Ring(points, mode)' = Ring(p, mo)
  BY DEF Draw, Ring
<1>5. SeenIsDrawn'
  BY <1>3, <1>4 DEF Draw, SeenIsDrawn
<1>6. SentIsGone'
  BY DEF Draw, SentIsGone
<1>7. QED
  BY <1>2, <1>5, <1>6

LEMMA MapInv ==
  ASSUME FormsInv,
         \/ MapLoads
         \/ \E pt \in Point : Click(pt)
         \/ \E mo \in {"rect", "poly"} : SetDrawMode(mo)
         \/ Clear
  PROVE  FormsInv'
<1>1. CASE MapLoads
  BY <1>1 DEF MapLoads, requests, FormsInv, Shaped, SeenIsDrawn, SentIsGone, Ring
<1>2. ASSUME NEW pt \in Point, Click(pt) PROVE FormsInv'
  BY <1>2, DrawInv DEF Click
<1>3. ASSUME NEW mo, SetDrawMode(mo) PROVE FormsInv'
  BY <1>3, DrawInv DEF SetDrawMode
<1>4. CASE Clear
  BY <1>4, DrawInv DEF Clear
<1>5. QED
  BY <1>1, <1>2, <1>3, <1>4

\* A request more: by the button of the form only if none is under way.
LEMMA SubmitInv ==
  ASSUME FormsInv, SubmitForm \/ SubmitByStyle
  PROVE  FormsInv'
<1> USE DEF FormsInv
<1>1. CASE SubmitForm
  <2>1. Shaped' /\ SeenIsDrawn'
    BY <1>1 DEF SubmitForm, Enabled, Send, drawing, Shaped, SeenIsDrawn, Ring
  <2>2. pending'
    BY <1>1 DEF SubmitForm, Send
  <2>3. QED
    BY <2>1, <2>2 DEF SentIsGone
<1>2. CASE SubmitByStyle
  <2>1. Shaped'
    BY <1>2 DEF SubmitByStyle, Send, drawing, Shaped
  <2>2. fields'["geom"] = fields["geom"]
    BY <1>2, AreaHasShape DEF SubmitByStyle, Shaped
  <2>3. SeenIsDrawn'
    BY <1>2, <2>2 DEF SubmitByStyle, drawing, SeenIsDrawn, Ring
  <2>4. pending'
    BY <1>2 DEF SubmitByStyle, Send
  <2>5. QED
    BY <2>1, <2>3, <2>4 DEF SentIsGone
<1>3. QED
  BY <1>1, <1>2

\* A request ends, the one the page follows or an earlier one.
LEMMA AnswerInv ==
  ASSUME FormsInv, Succeeds \/ Fails \/ OlderSucceeds \/ OlderFails
  PROVE  FormsInv'
<1> USE DEF FormsInv
<1>1. CASE Succeeds \/ OlderSucceeds
  <2>1. Shaped' /\ SeenIsDrawn'
    BY <1>1 DEF Succeeds, OlderSucceeds, Closed, Emptied, Shaped, SeenIsDrawn
  <2>2. PICK x \in Forms[form].required : x \in Fields(form) \ Forms[form].kept
    BY RequiredAreEmptied DEF Shaped
  <2>3. fields'[x] = None
    BY <1>1, <2>2 DEF Succeeds, OlderSucceeds, Emptied
  <2>4. SentIsGone'
    BY <1>1, <2>2, <2>3 DEF Succeeds, OlderSucceeds, SentIsGone
  <2>5. QED
    BY <2>1, <2>4
<1>2. CASE Fails
  BY <1>2 DEF Fails, drawing, Shaped, SeenIsDrawn, SentIsGone, Ring
<1>3. CASE OlderFails
  BY <1>3 DEF OlderFails, drawing, Shaped, SeenIsDrawn, SentIsGone, Ring
<1>4. QED
  BY <1>1, <1>2, <1>3

LEMMA NextFormsInv == ASSUME FormsInv, [FormsNext]_formVars PROVE FormsInv'
<1>1. CASE UNCHANGED formVars
  BY <1>1 DEF formVars, FormsInv, Shaped, SeenIsDrawn, SentIsGone, Ring
<1>2. CASE FormsNext
  BY <1>2, ModalInv, TypeInv, MapInv, SubmitInv, AnswerInv DEF FormsNext
<1>3. QED
  BY <1>1, <1>2

LEMMA FormInvariant == FormsSpec => []FormsInv
<1>1. QED
  BY InitFormsInv, NextFormsInv, PTL DEF FormsSpec

------------------------------------------------------------------------------
(* The theorems *)

\* The shape a user saves is the one on the map, once the map has drawn since it
\* was loaded (DrawMap.tsx, with the modal and the state of watch-areas/page.tsx).
THEOREM ShapesAreSeen == FormsSpec => []ShapeIsSeen
<1>1. FormsInv => ShapeIsSeen
  BY DEF FormsInv, SeenIsDrawn, ShapeIsSeen
<1>2. QED
  BY <1>1, FormInvariant, PTL

\* The four forms that only their button sends do not send what they have sent
\* before, unless that failed: the button is disabled while a request is under way,
\* and a success empties a required field, also of a form closed and reopened
\* meanwhile (the pages of the library, the projects, the settings and the permits).
THEOREM SentOnce == FormsSpec => NothingSentTwice
<1>1. ASSUME FormsInv, [FormsNext]_formVars
      PROVE  [form # "area" /\ UnderWay' > UnderWay => ~sent]_formVars
  <2> SUFFICES ASSUME form # "area", UnderWay' > UnderWay PROVE ~sent
    OBVIOUS
  <2>1. older = 0
    BY <1>1 DEF FormsInv, Shaped
  <2>2. ~(pending' = pending /\ older' = older)
    BY <2>1 DEF UnderWay
  <2>3. CASE SubmitForm
    BY <1>1, <2>3 DEF FormsInv, SentIsGone, SubmitForm, Enabled, Filled
  <2>4. CASE LeavePage \/ Succeeds \/ Fails
    BY <2>1, <2>4 DEF UnderWay, LeavePage, Succeeds, Fails
  <2>5. CASE ~(SubmitForm \/ LeavePage \/ Succeeds \/ Fails)
    BY <1>1, <2>1, <2>2, <2>5
       DEF FormsNext, formVars, requests, Open, Cancel, Type, ChooseFile, FileRead,
           MapLoads, Click, SetDrawMode, Clear, Draw, SubmitByStyle, OlderSucceeds,
           OlderFails
  <2>6. QED
    BY <2>3, <2>4, <2>5
<1>2. QED
  BY <1>1, FormInvariant, PTL DEF FormsSpec, NothingSentTwice

=============================================================================
