------------------------- MODULE SessionStoreProofs -------------------------
(***************************************************************************)
(* Proofs about SessionStore, for every value of its constants.            *)
(***************************************************************************)
EXTENDS SessionStore, TLAPS

-----------------------------------------------------------------------------
(* Types.                                                                  *)

\* The conjuncts of TypeOK, by what they are about.
ServerTyped ==
    /\ issued \in [Users -> 0..MaxTokens]
    /\ valid \in SUBSET Token

StoreTyped ==
    /\ keychain \in Token \cup {None}
    /\ memory \in Token \cup {None}
    /\ user \in Users \cup {None}
    /\ late \in BOOLEAN
    /\ kills \in 0..MaxKills

LaunchTyped ==
    /\ boot \in [at : {"dead", "reading", "asking", "refused", "clearing", "up"},
                 tok : Token \cup {None}]
    /\ login \in [at : {"idle", "asked", "stored"}, tok : Token \cup {None}]

RenewalTyped ==
    renewal \in [at : {"idle", "asked", "granted", "committed"},
                 old : Token \cup {None}, tok : Token \cup {None}]

WaitersTyped ==
    /\ leaving \in {"idle", "workspace", "cleared"}
    /\ refused \in {"idle", "cleared", "workspace"}
    /\ requests \in SUBSET (Token \cup {None})

\* A procedure that is about to write a token has one, and a renewal never
\* changes whose it is.
Carried ==
    /\ login.at = "stored" => login.tok \in Token
    /\ renewal.at \in {"granted", "committed"} =>
          /\ renewal.old \in Token /\ renewal.tok \in Token
          /\ renewal.tok.owner = renewal.old.owner

Typed == TypeOK /\ Carried

LEMMA IssuedTyped ==
  ASSUME TypeOK, NEW u \in Users, NEW tok, Issues(u, tok)
  PROVE  /\ tok \in Token /\ tok.owner = u
         /\ issued' \in [Users -> 0..MaxTokens] /\ valid' \in SUBSET Token
<1>1. issued[u] + 1 \in 1..MaxTokens /\ issued[u] + 1 \in 0..MaxTokens
  BY SessionAssumption DEF Issues, TypeOK
<1>2. tok \in Token
  BY <1>1 DEF Issues, Token
<1>3. issued' \in [Users -> 0..MaxTokens]
  BY <1>1 DEF Issues, TypeOK
<1> QED
  BY <1>2, <1>3 DEF Issues, TypeOK

LEMMA InitTyped == Init => Typed
<1> SUFFICES ASSUME Init PROVE Typed
  OBVIOUS
<1>1. 1 \in 1..MaxTokens /\ 1 \in 0..MaxTokens /\ 0 \in 0..MaxKills
  BY SessionAssumption
<1>2. issued \in [Users -> 0..MaxTokens]
  BY <1>1 DEF Init
<1>3. valid \in SUBSET Token
  BY <1>1 DEF Init, First, Token
<1> QED
  BY <1>1, <1>2, <1>3 DEF Init, Typed, Carried, TypeOK, At, NoRenewal

LEMMA SendTyped ==
  ASSUME Typed, login' = login,
         \/ renewal' = renewal
         \/ renewal' = [at |-> "asked", old |-> memory, tok |-> None]
         \/ renewal' = [at |-> "asked", old |-> None, tok |-> None]
  PROVE  RenewalTyped' /\ Carried'
<1>1. RenewalTyped'
  BY DEF Typed, TypeOK, RenewalTyped
<1>2. Carried'
  BY DEF Typed, Carried
<1> QED
  BY <1>1, <1>2

LEMMA BootTyped ==
  ASSUME Typed, Boot
  PROVE  Typed'
<1> USE DEF Typed, server, session, history, At, NoRenewal, RenewNow, Expects,
           Boot, Launch, BootRead, BootAccepted, BootUnreachable, BootRefused, BootClear,
           BootCleared, Unauthorized
<1>0. boot.at = "asking" /\ boot.tok \in valid => boot.tok.owner \in Users
  BY DEF TypeOK, Token
<1>1. ServerTyped'
  BY DEF TypeOK, ServerTyped
<1>2. StoreTyped'
  BY <1>0 DEF TypeOK, StoreTyped
<1>3. LaunchTyped'
  BY DEF TypeOK, LaunchTyped
<1>4. \/ renewal' = renewal
      \/ renewal' = [at |-> "asked", old |-> memory, tok |-> None]
      \/ renewal' = [at |-> "asked", old |-> None, tok |-> None]
  OBVIOUS
<1>5. WaitersTyped'
  BY DEF TypeOK, WaitersTyped
<1>6. RenewalTyped' /\ Carried'
  <2>1. login' = login
    OBVIOUS
  <2> QED
    BY <1>4, <2>1, SendTyped
<1> QED
  BY <1>1, <1>2, <1>3, <1>5, <1>6
     DEF TypeOK, ServerTyped, StoreTyped, LaunchTyped, RenewalTyped, WaitersTyped

LEMMA GrantTyped ==
  ASSUME Typed, RenewalGranted
  PROVE  RenewalTyped' /\ Carried'
<1>1. renewal.old \in Token /\ renewal.old.owner \in Users
  BY DEF RenewalGranted, Typed, TypeOK, Token
<1>2. PICK tok \in Token : /\ Issues(renewal.old.owner, tok)
                           /\ renewal' = [renewal EXCEPT !.at = "granted", !.tok = tok]
  BY DEF RenewalGranted
<1>3. tok.owner = renewal.old.owner /\ login' = login
  BY <1>2 DEF Issues, RenewalGranted
<1>4. RenewalTyped'
  BY <1>2 DEF Typed, TypeOK, RenewalTyped
<1>5. /\ renewal'.old = renewal.old /\ renewal'.tok = tok
  BY <1>2 DEF Typed, TypeOK
<1> QED
  BY <1>1, <1>3, <1>4, <1>5 DEF Typed, Carried

LEMMA RenewTyped ==
  ASSUME Typed, Renew
  PROVE  Typed'
<1> USE DEF Typed, server, session, history, At, NoRenewal, RenewNow, Expects,
           Renew, Touch, RenewalGranted, RenewalNothing, RenewalRefused, RenewalCommit,
           RenewalAdopt, Unauthorized
<1>1. ServerTyped'
  <2>1. CASE RenewalGranted
    <3>1. renewal.old.owner \in Users
      BY <2>1 DEF TypeOK, Token
    <3> QED
      BY <2>1, <3>1, IssuedTyped DEF ServerTyped
  <2> QED
    BY <2>1 DEF TypeOK, ServerTyped
<1>2. StoreTyped'
  BY DEF TypeOK, StoreTyped
<1>3. LaunchTyped'
  BY DEF TypeOK, LaunchTyped
<1>4. RenewalTyped' /\ Carried'
  <2>1. CASE RenewalGranted
    BY <2>1, GrantTyped
  <2>2. CASE Touch
    BY <2>2, SendTyped
  <2>3. CASE RenewalNothing \/ RenewalRefused \/ RenewalAdopt
    <3>1. renewal' = NoRenewal /\ login' = login
      BY <2>3
    <3> QED
      BY <3>1 DEF RenewalTyped, Carried
  <2>4. CASE RenewalCommit
    <3>1. renewal' \in [at : {"idle", "asked", "granted", "committed"},
                        old : Token \cup {None}, tok : Token \cup {None}]
      BY <2>4 DEF TypeOK
    <3>2. Carried'
      BY <2>4 DEF TypeOK, Carried
    <3> QED
      BY <3>1, <3>2 DEF RenewalTyped
  <2> QED
    BY <2>1, <2>2, <2>3, <2>4
<1>5. WaitersTyped'
  BY DEF TypeOK, WaitersTyped
<1> QED
  BY <1>1, <1>2, <1>3, <1>4, <1>5
     DEF TypeOK, ServerTyped, StoreTyped, LaunchTyped, RenewalTyped, WaitersTyped

LEMMA LeaveTyped ==
  ASSUME Typed, Leave
  PROVE  Typed'
<1> USE DEF Typed, server, session, history, At, NoRenewal, RenewNow, Expects,
           Leave, SignOut, SignOutClear, SignOutDone, RefusedLogout, RefusedDone
<1>1. ServerTyped'
  BY DEF TypeOK, ServerTyped
<1>2. StoreTyped'
  BY DEF TypeOK, StoreTyped
<1>3. LaunchTyped'
  BY DEF TypeOK, LaunchTyped
<1>4. RenewalTyped'
  BY DEF TypeOK, RenewalTyped
<1>5. WaitersTyped'
  BY DEF TypeOK, WaitersTyped
<1>6. Carried'
  BY NoneIsNoToken DEF TypeOK, Carried
<1> QED
  BY <1>1, <1>2, <1>3, <1>4, <1>5, <1>6
     DEF TypeOK, ServerTyped, StoreTyped, LaunchTyped, RenewalTyped, WaitersTyped

LEMMA EnterTyped ==
  ASSUME Typed, Enter
  PROVE  Typed'
<1> USE DEF Typed, server, session, history, At, NoRenewal, RenewNow, Expects,
           Enter, LoginAsk, LoginStore, LoginFail, LoginDone
<1>0. login.at = "stored" => login.tok.owner \in Users
  BY DEF Carried, Token
<1>1. ServerTyped'
  <2>1. CASE LoginStore
    BY <2>1, IssuedTyped DEF ServerTyped
  <2> QED
    BY <2>1 DEF TypeOK, ServerTyped
<1>2. StoreTyped'
  BY <1>0 DEF TypeOK, StoreTyped
<1>3. LaunchTyped'
  BY DEF TypeOK, LaunchTyped
<1>4. RenewalTyped'
  BY DEF TypeOK, RenewalTyped
<1>5. WaitersTyped'
  BY DEF TypeOK, WaitersTyped
<1>6. Carried'
  BY NoneIsNoToken DEF TypeOK, Carried
<1> QED
  BY <1>1, <1>2, <1>3, <1>4, <1>5, <1>6
     DEF TypeOK, ServerTyped, StoreTyped, LaunchTyped, RenewalTyped, WaitersTyped

LEMMA OtherTyped ==
  ASSUME Typed,
         \/ Request \/ Kill
         \/ \E t \in Token : Expire(t)
         \/ \E t \in Token \cup {None} : RequestAnswered(t) \/ ProfileSaved(t) \/ RequestRefused(t)
  PROVE  Typed'
<1> USE DEF Typed, server, session, history
<1>1. CASE Request
  BY <1>1 DEF Request, TypeOK, Carried
<1>2. CASE Kill
  <2>1. kills' \in 0..MaxKills
    BY <1>2, SessionAssumption DEF Kill, TypeOK
  <2> QED
    BY <1>2, <2>1 DEF Kill, At, NoRenewal, TypeOK, Carried
<1>3. CASE \E t \in Token : Expire(t)
  BY <1>3 DEF Expire, TypeOK, Carried
<1>4. CASE \E t \in Token \cup {None} : RequestAnswered(t) \/ RequestRefused(t)
  <2>1. /\ UNCHANGED <<server, memory, user, boot, renewal, login, leaving, kills>>
        /\ requests' \in SUBSET (Token \cup {None})
        /\ keychain' \in {keychain, None} /\ refused' \in {refused, "cleared"}
        /\ late' \in BOOLEAN
    BY <1>4 DEF RequestAnswered, RequestRefused, Unauthorized, TypeOK
  <2> QED
    BY <2>1 DEF TypeOK, Carried
<1>5. CASE \E t \in Token \cup {None} : ProfileSaved(t)
  <2>1. PICK t \in Token : ProfileSaved(t)
    BY <1>5 DEF ProfileSaved
  <2>2. t.owner \in Users
    BY DEF Token
  <2>3. /\ UNCHANGED <<server, keychain, memory, boot, renewal, login, leaving, refused, kills>>
        /\ user' \in Users /\ late' \in BOOLEAN
        /\ requests' \in SUBSET (Token \cup {None})
    BY <2>1, <2>2 DEF ProfileSaved, TypeOK
  <2> QED
    BY <2>3 DEF TypeOK, Carried
<1> QED
  BY <1>1, <1>2, <1>3, <1>4, <1>5

LEMMA NextTyped == Typed /\ [Next]_vars => Typed'
<1>1. Typed /\ UNCHANGED vars => Typed'
  BY DEF Typed, TypeOK, Carried, vars, server, session, history
<1> QED
  BY <1>1, BootTyped, RenewTyped, LeaveTyped, EnterTyped, OtherTyped DEF Next

\* Keychain, request token, user and the procedures that write them stay well
\* typed: no procedure writes a token or a user it does not have.
THEOREM TypeCorrect == Spec => []TypeOK
<1>1. Typed => TypeOK
  BY DEF Typed
<1> QED
  BY <1>1, InitTyped, NextTyped, PTL DEF Spec

-----------------------------------------------------------------------------
(* The three copies of the session stay in step.                           *)

\* What a launch has not reached yet.
Shape ==
    /\ boot.at \in {"dead", "reading"} =>
          /\ memory = None
          /\ renewal.at = "idle" \/ (renewal.at = "asked" /\ renewal.old = None)
    /\ boot.at # "up" => /\ user = None /\ login.at = "idle" /\ leaving = "idle"
                         /\ requests = {}

\* A copy differs only while a procedure is between its two writes, and each
\* of them ends by making the copies equal or by noticing that it is late; and
\* nobody signs in over a user.
Together ==
    /\ \/ memory = keychain
       \/ boot.at \in {"dead", "reading", "clearing"}
       \/ renewal.at = "committed" \/ login.at = "stored"
       \/ leaving = "cleared" \/ refused = "cleared"
    /\ user # None => \/ keychain # None /\ keychain.owner = user
                      \/ leaving = "cleared" \/ refused = "cleared"
    /\ boot.at = "asking" => keychain = None \/ keychain.owner = boot.tok.owner
    /\ login.at # "idle" => user = None

StepInv == Typed /\ Shape /\ (~late => Together)

LEMMA InitStep == Init => StepInv
<1>1. Init => Shape /\ Together
  BY DEF Init, Shape, Together, At, NoRenewal
<1> QED
  BY <1>1, InitTyped DEF StepInv

LEMMA BootStep ==
  ASSUME StepInv, Boot
  PROVE  Shape' /\ (~late' => Together')
<1> USE DEF StepInv, Shape, Together, server, session, history, At, RenewNow, Expects
<1>1. CASE Launch \/ BootRead
  BY <1>1 DEF Launch, BootRead, Typed, TypeOK
<1>2. CASE BootAccepted \/ BootUnreachable
  <2>1. /\ boot.at = "asking" /\ boot'.at = "up"
        /\ renewal.at = "committed" => renewal'.at = "committed"
        /\ UNCHANGED <<keychain, memory, login, leaving, refused>>
    BY <1>2 DEF BootAccepted, BootUnreachable
  <2>2. user' = None \/ (user' = boot.tok.owner /\ (~late' => keychain # None))
    BY <1>2 DEF BootAccepted, BootUnreachable
  <2>3. late => late'
    BY <1>2 DEF BootAccepted, BootUnreachable, Typed, TypeOK
  <2>4. Shape'
    BY <2>1
  <2>5. ~late' => Together'
    BY <2>1, <2>2, <2>3
  <2> QED
    BY <2>4, <2>5
<1>3. CASE BootRefused
  BY <1>3 DEF BootRefused, Unauthorized, Typed, TypeOK
<1>4. CASE BootClear
  <2>1. /\ boot.at = "refused" /\ boot'.at = "clearing"
        /\ UNCHANGED <<memory, user, renewal, login, leaving, refused, requests>>
        /\ ~late' => ~late /\ keychain \in {boot.tok, None}
    BY <1>4 DEF BootClear, Typed, TypeOK
  <2> QED
    BY <2>1
<1>5. CASE BootCleared
  <2>1. /\ boot'.at = "up" /\ boot.at = "clearing"
        /\ memory' = None /\ user' = None /\ UNCHANGED <<keychain, login>>
        /\ ~late' => keychain = None
    BY <1>5 DEF BootCleared, Typed, TypeOK
  <2> QED
    BY <2>1
<1> QED
  BY <1>1, <1>2, <1>3, <1>4, <1>5 DEF Boot

LEMMA RenewStep ==
  ASSUME StepInv, Renew
  PROVE  Shape' /\ (~late' => Together')
<1> USE DEF StepInv, Shape, Together, server, session, history, NoRenewal, RenewNow, Expects
<1>1. CASE Touch \/ RenewalNothing
  BY <1>1 DEF Touch, RenewalNothing, Typed, TypeOK
<1>2. CASE RenewalGranted
  <2>1. renewal.at = "asked" /\ renewal.old # None
    BY <1>2, NoneIsNoToken DEF RenewalGranted, Typed, TypeOK
  <2>2. UNCHANGED <<session, boot, login, leaving, refused, requests, late>>
    BY <1>2 DEF RenewalGranted
  <2> QED
    BY <2>1, <2>2
<1>3. CASE RenewalRefused
  BY <1>3 DEF RenewalRefused, Unauthorized, Typed, TypeOK
<1>4. CASE RenewalCommit
  <2>1. /\ renewal.at = "granted" /\ renewal'.at = "committed"
        /\ keychain' = renewal.tok /\ renewal.tok \in Token
        /\ ~late' => keychain = renewal.old
        /\ renewal.tok.owner = renewal.old.owner
    BY <1>4 DEF RenewalCommit, Typed, TypeOK, Carried
  <2>2. keychain' # None /\ boot.at \notin {"dead", "reading"}
    BY <2>1, NoneIsNoToken
  <2>3. UNCHANGED <<memory, user, boot, login, leaving, refused, requests>> /\ (~late' => ~late)
    BY <1>4 DEF RenewalCommit, Typed, TypeOK
  <2>4. Shape'
    BY <2>2, <2>3
  <2>5. ~late' => keychain # None /\ keychain'.owner = keychain.owner
    BY <2>1, NoneIsNoToken DEF Typed, Carried
  <2>6. ~late' => Together'
    BY <2>1, <2>2, <2>3, <2>5
  <2> QED
    BY <2>4, <2>6
<1>5. CASE RenewalAdopt
  BY <1>5 DEF RenewalAdopt, Typed, TypeOK
<1> QED
  BY <1>1, <1>2, <1>3, <1>4, <1>5 DEF Renew

LEMMA LeaveStep ==
  ASSUME StepInv, Leave
  PROVE  Shape' /\ (~late' => Together')
  BY DEF StepInv, Shape, Together, Leave, SignOut, SignOutClear, SignOutDone,
         RefusedLogout, RefusedDone, server, session, history, Expects, Typed, TypeOK

LEMMA EnterStep ==
  ASSUME StepInv, Enter
  PROVE  Shape' /\ (~late' => Together')
<1> USE DEF StepInv, Shape, Together, server, session, history, At, Expects
<1>1. CASE LoginAsk \/ LoginFail
  BY <1>1 DEF LoginAsk, LoginFail
<1>2. CASE LoginStore
  BY <1>2 DEF LoginStore
<1>3. CASE LoginDone
  BY <1>3, NoneIsNoToken DEF LoginDone, Typed, TypeOK, Carried
<1> QED
  BY <1>1, <1>2, <1>3 DEF Enter

LEMMA OtherStep ==
  ASSUME StepInv,
         \/ Request \/ Kill
         \/ \E t \in Token : Expire(t)
         \/ \E t \in Token \cup {None} : RequestAnswered(t) \/ ProfileSaved(t) \/ RequestRefused(t)
  PROVE  Shape' /\ (~late' => Together')
<1> USE DEF StepInv, Shape, Together, server, session, history
<1>1. CASE Request \/ \E t \in Token : Expire(t)
  BY <1>1 DEF Request, Expire
<1>2. CASE Kill
  BY <1>2 DEF Kill, At, NoRenewal
<1>3. CASE \E t \in Token \cup {None} : RequestAnswered(t) \/ RequestRefused(t)
  BY <1>3 DEF RequestAnswered, RequestRefused, Unauthorized, Typed, TypeOK
<1>4. CASE \E t \in Token \cup {None} : ProfileSaved(t)
  <2>1. PICK t \in Token : ProfileSaved(t)
    BY <1>4 DEF ProfileSaved
  <2>2. boot.at = "up" /\ (~late' => ~late /\ user' = user)
    BY <2>1 DEF ProfileSaved, Typed, TypeOK
  <2> QED
    BY <2>1, <2>2 DEF ProfileSaved
<1> QED
  BY <1>1, <1>2, <1>3, <1>4

LEMMA NextStep == StepInv /\ [Next]_vars => StepInv'
<1> SUFFICES ASSUME StepInv, [Next]_vars PROVE StepInv'
  OBVIOUS
<1>1. Typed'
  BY NextTyped DEF StepInv
<1>2. UNCHANGED vars => Shape' /\ (~late' => Together')
  BY DEF StepInv, Shape, Together, vars, session, history
<1> QED
  BY <1>1, <1>2, BootStep, RenewStep, LeaveStep, EnterStep, OtherStep DEF Next, StepInv

\* When no procedure is halfway and none has written over a session that
\* changed under it, Keychain, request token and user name one session: for
\* any number of accounts, tokens and kills and every interleaving.
THEOREM CopiesStayInStep == Spec => []InStep
<1>1. StepInv => InStep
  BY DEF StepInv, Together, InStep, Settled
<1> QED
  BY <1>1, InitStep, NextStep, PTL DEF Spec

-----------------------------------------------------------------------------
(* A live session is not ended, and none is begun, by anything but its user. *)

\* Was t issued?
Known(t) == t.gen <= issued[t.owner]

\* Every token held was issued, and the launch gives up a rejected one only.
Genuine ==
    /\ keychain # None => Known(keychain)
    /\ renewal.at \in {"granted", "committed"} => Known(renewal.tok)
    /\ boot.at \in {"asking", "refused"} => boot.tok \in Token /\ Known(boot.tok)
    /\ boot.at = "refused" => boot.tok \notin valid

KeptInv == Typed /\ Genuine

\* A new token is none of those issued before: what is rejected stays so.
LEMMA IssuedIsNew ==
  ASSUME TypeOK, NEW u \in Users, NEW tok, Issues(u, tok)
  PROVE  /\ tok.gen <= issued'[tok.owner]
         /\ \A t \in Token : Known(t) =>
               t.gen <= issued'[t.owner] /\ (t \notin valid => t \notin valid')
<1>1. /\ tok.owner = u /\ tok.gen = issued[u] + 1
      /\ \A v \in Users : /\ issued[v] \in Nat
                          /\ issued'[v] = IF v = u THEN issued[u] + 1 ELSE issued[v]
  BY SessionAssumption DEF Issues, TypeOK
<1>2. ASSUME NEW t \in Token, Known(t)
      PROVE  t.gen <= issued'[t.owner] /\ t # tok
  <2>1. t.owner \in Users /\ t.gen \in Nat
    BY SessionAssumption DEF Token
  <2> QED
    BY <1>1, <1>2, <2>1 DEF Known
<1> QED
  BY <1>1, <1>2 DEF Issues

LEMMA InitKept == Init => KeptInv
<1> SUFFICES ASSUME Init PROVE Genuine
  BY InitTyped DEF KeptInv
<1>1. keychain # None => \E u \in Users : keychain = First(u)
  BY DEF Init
<1>2. \A u \in Users : First(u).gen = 1 /\ issued[First(u).owner] = 1
  BY DEF Init, First
<1>3. keychain # None => Known(keychain)
  BY <1>1, <1>2 DEF Known
<1> QED
  BY <1>3 DEF Init, Genuine, At, NoRenewal

LEMMA BootKept ==
  ASSUME KeptInv, Boot
  PROVE  Genuine'
<1> USE DEF KeptInv, Genuine, Known, server, session, history, At, RenewNow
<1>1. CASE Launch \/ BootRead
  BY <1>1 DEF Launch, BootRead, Typed, TypeOK
<1>2. CASE BootAccepted \/ BootUnreachable
  <2>1. /\ boot'.at = "up" /\ UNCHANGED <<server, keychain>>
        /\ renewal' = renewal \/ renewal'.at = "asked"
    BY <1>2 DEF BootAccepted, BootUnreachable
  <2> QED
    BY <2>1
<1>3. CASE BootRefused
  BY <1>3 DEF BootRefused, Unauthorized, Typed, TypeOK
<1>4. CASE BootClear \/ BootCleared
  <2>1. /\ boot'.at \in {"clearing", "up"} /\ UNCHANGED server
        /\ keychain' \in {keychain, None}
        /\ renewal' = renewal \/ renewal'.at = "asked"
    BY <1>4 DEF BootClear, BootCleared
  <2> QED
    BY <2>1
<1> QED
  BY <1>1, <1>2, <1>3, <1>4 DEF Boot

LEMMA RenewKept ==
  ASSUME KeptInv, Renew
  PROVE  Genuine'
<1> USE DEF KeptInv, Genuine, server, session, history, NoRenewal, RenewNow
<1>1. CASE Touch \/ RenewalNothing \/ RenewalAdopt
  BY <1>1 DEF Touch, RenewalNothing, RenewalAdopt, Known
<1>2. CASE RenewalGranted
  <2>1. renewal.old.owner \in Users
    BY <1>2 DEF RenewalGranted, Typed, TypeOK, Token
  <2>2. PICK tok \in Token : /\ Issues(renewal.old.owner, tok)
                             /\ renewal' = [renewal EXCEPT !.at = "granted", !.tok = tok]
    BY <1>2 DEF RenewalGranted
  <2>3. /\ tok.gen <= issued'[tok.owner]
        /\ \A t \in Token : Known(t) =>
              t.gen <= issued'[t.owner] /\ (t \notin valid => t \notin valid')
    BY <2>1, <2>2, IssuedIsNew DEF Typed
  <2>4. renewal'.tok = tok /\ UNCHANGED <<keychain, boot>>
    BY <1>2, <2>2 DEF RenewalGranted, Typed, TypeOK
  <2>5. keychain # None => keychain \in Token
    BY DEF Typed, TypeOK
  <2> QED
    BY <2>3, <2>4, <2>5 DEF Known
<1>3. CASE RenewalRefused
  BY <1>3 DEF RenewalRefused, Unauthorized, Known
<1>4. CASE RenewalCommit
  <2>1. /\ renewal.at = "granted" /\ renewal'.tok = renewal.tok
        /\ keychain' = renewal.tok /\ UNCHANGED <<server, boot>>
    BY <1>4 DEF RenewalCommit, Typed, TypeOK
  <2> QED
    BY <2>1 DEF Known
<1> QED
  BY <1>1, <1>2, <1>3, <1>4 DEF Renew

LEMMA LeaveKept ==
  ASSUME KeptInv, Leave
  PROVE  Genuine'
  BY DEF KeptInv, Genuine, Known, Leave, SignOut, SignOutClear, SignOutDone,
         RefusedLogout, RefusedDone, server, session, history

LEMMA EnterKept ==
  ASSUME KeptInv, Enter
  PROVE  Genuine'
<1> USE DEF KeptInv, Genuine, server, session, history, At
<1>1. CASE LoginAsk \/ LoginFail \/ LoginDone
  BY <1>1 DEF LoginAsk, LoginFail, LoginDone, Known
<1>2. CASE LoginStore
  <2>1. PICK u \in Users, tok \in Token : Issues(u, tok) /\ keychain' = tok
    BY <1>2 DEF LoginStore
  <2>2. /\ tok.gen <= issued'[tok.owner]
        /\ \A t \in Token : Known(t) =>
              t.gen <= issued'[t.owner] /\ (t \notin valid => t \notin valid')
    BY <2>1, IssuedIsNew DEF Typed
  <2>3. UNCHANGED <<boot, renewal>>
    BY <1>2 DEF LoginStore
  <2>4. renewal.at \in {"granted", "committed"} => renewal.tok \in Token
    BY DEF Typed, Carried
  <2> QED
    BY <2>1, <2>2, <2>3, <2>4 DEF Known
<1> QED
  BY <1>1, <1>2 DEF Enter

LEMMA OtherKept ==
  ASSUME KeptInv,
         \/ Request \/ Kill
         \/ \E t \in Token : Expire(t)
         \/ \E t \in Token \cup {None} : RequestAnswered(t) \/ ProfileSaved(t) \/ RequestRefused(t)
  PROVE  Genuine'
<1> USE DEF KeptInv, Genuine, Known, server, session, history
<1>1. CASE Request \/ \E t \in Token : Expire(t)
  BY <1>1 DEF Request, Expire
<1>2. CASE Kill
  BY <1>2 DEF Kill, At, NoRenewal
<1>3. CASE \E t \in Token \cup {None} : RequestAnswered(t) \/ RequestRefused(t)
  BY <1>3 DEF RequestAnswered, RequestRefused, Unauthorized
<1>4. CASE \E t \in Token \cup {None} : ProfileSaved(t)
  BY <1>4 DEF ProfileSaved
<1> QED
  BY <1>1, <1>2, <1>3, <1>4

LEMMA NextKept == KeptInv /\ [Next]_vars => KeptInv'
<1> SUFFICES ASSUME KeptInv, [Next]_vars PROVE KeptInv'
  OBVIOUS
<1>1. Typed'
  BY NextTyped DEF KeptInv
<1>2. UNCHANGED vars => Genuine'
  BY DEF KeptInv, Genuine, Known, vars, server, session
<1> QED
  BY <1>1, <1>2, BootKept, RenewKept, LeaveKept, EnterKept, OtherKept DEF Next, KeptInv

\* What a step that empties the Keychain answers for.
EndsRightly == leaving = "workspace" \/ keychain \notin valid \/ late'

LEMMA EndingStep ==
  ASSUME KeptInv, [Next]_vars, keychain # None, keychain' = None
  PROVE  EndsRightly
<1> USE DEF KeptInv, Genuine, EndsRightly, server, session, history
<1>1. ~ UNCHANGED vars
  BY DEF vars
<1>2. CASE Boot
  BY <1>2 DEF Boot, Launch, BootRead, BootAccepted, BootUnreachable, BootRefused,
              BootClear, BootCleared, Unauthorized, Typed, TypeOK
<1>3. CASE Renew
  BY <1>3, NoneIsNoToken
     DEF Renew, Touch, RenewalGranted, RenewalNothing, RenewalRefused, RenewalCommit,
         RenewalAdopt, Unauthorized, Typed, TypeOK, Carried
<1>4. CASE Leave
  BY <1>4 DEF Leave, SignOut, SignOutClear, SignOutDone, RefusedLogout, RefusedDone
<1>5. CASE Enter
  BY <1>5, NoneIsNoToken DEF Enter, LoginAsk, LoginStore, LoginFail, LoginDone
<1>6. CASE Request \/ Kill \/ \E t \in Token : Expire(t)
  BY <1>6 DEF Request, Kill, Expire
<1>7. CASE \E t \in Token \cup {None} :
          RequestAnswered(t) \/ ProfileSaved(t) \/ RequestRefused(t)
  BY <1>7 DEF RequestAnswered, ProfileSaved, RequestRefused, Unauthorized, Typed, TypeOK
<1> QED
  BY <1>1, <1>2, <1>3, <1>4, <1>5, <1>6, <1>7 DEF Next

\* A token the server accepts leaves the phone by a sign-out only, or by a
\* procedure that set out with another session.
THEOREM LiveSessionIsKept == Spec => SessionKept
<1>1. KeptInv /\ [Next]_vars =>
        [keychain # None /\ keychain' = None =>
            leaving = "workspace" \/ keychain \notin valid \/ late']_vars
  BY EndingStep DEF EndsRightly
<1> QED
  BY <1>1, InitKept, NextKept, PTL DEF Spec, SessionKept

LEMMA BeginningStep ==
  ASSUME Typed, [Next]_vars, keychain = None, keychain' # None
  PROVE  login.at = "asked" \/ late'
<1> USE DEF Typed, server, session, history
<1>1. ~ UNCHANGED vars
  BY DEF vars
<1>2. CASE Boot
  BY <1>2 DEF Boot, Launch, BootRead, BootAccepted, BootUnreachable, BootRefused,
              BootClear, BootCleared, Unauthorized
<1>3. CASE Renew
  BY <1>3, NoneIsNoToken
     DEF Renew, Touch, RenewalGranted, RenewalNothing, RenewalRefused, RenewalCommit,
         RenewalAdopt, Unauthorized, Expects, Carried
<1>4. CASE Leave
  BY <1>4 DEF Leave, SignOut, SignOutClear, SignOutDone, RefusedLogout, RefusedDone
<1>5. CASE Enter
  BY <1>5 DEF Enter, LoginAsk, LoginStore, LoginFail, LoginDone
<1>6. CASE Request \/ Kill \/ \E t \in Token : Expire(t)
  BY <1>6 DEF Request, Kill, Expire
<1>7. CASE \E t \in Token \cup {None} :
          RequestAnswered(t) \/ ProfileSaved(t) \/ RequestRefused(t)
  BY <1>7 DEF RequestAnswered, ProfileSaved, RequestRefused, Unauthorized
<1> QED
  BY <1>1, <1>2, <1>3, <1>4, <1>5, <1>6, <1>7 DEF Next

\* A phone without a token gets one through a login, or from a renewal that
\* has outlived its session.
THEOREM RenewalBeginsNoSession == Spec => RenewalIsNoLogin
<1>1. Typed /\ [Next]_vars =>
        [keychain = None /\ keychain' # None => login.at = "asked" \/ late']_vars
  BY BeginningStep
<1> QED
  BY <1>1, InitTyped, NextTyped, PTL DEF Spec, RenewalIsNoLogin
=============================================================================
