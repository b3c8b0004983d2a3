--------------------------- MODULE RequestPromise ---------------------------
(***************************************************************************)
(* What the way to the server promises to those who make requests: each is *)
(* sent once at most, and never after it was answered; each is answered    *)
(* once at most, whether it was sent or not, and the answer to one changes *)
(* nothing for another.  How it is signed and authorised in between, and   *)
(* when it is answered, is left open.  Of one request in a launch, the     *)
(* stray one, it promises nothing.                                         *)
(***************************************************************************)
EXTENDS Naturals

CONSTANT Requests

VARIABLES
    opened,     \* the requests made in this launch
    sent,       \* how often each was sent
    answered,   \* how often its completion ran
    stray       \* the request that strayed, if one did

vars == <<opened, sent, answered, stray>>

Never == [r \in Requests |-> 0]

Fresh == opened = {} /\ sent = Never /\ answered = Never /\ stray = {}

Open(r) ==
    /\ r \notin opened
    /\ opened' = opened \cup {r}
    /\ UNCHANGED <<sent, answered, stray>>

Send(r) ==
    /\ r \in opened
    /\ r \in stray \/ (sent[r] = 0 /\ answered[r] = 0)
    /\ sent' = [sent EXCEPT ![r] = @ + 1]
    /\ UNCHANGED <<opened, answered, stray>>

Answer(r) ==
    /\ r \in opened
    /\ r \in stray \/ answered[r] = 0
    /\ answered' = [answered EXCEPT ![r] = @ + 1]
    /\ UNCHANGED <<opened, sent, stray>>

Stray(r) ==
    /\ r \in opened /\ stray = {}
    /\ stray' = {r}
    /\ UNCHANGED <<opened, sent, answered>>

Launch == Fresh'

Next == (\E r \in Requests : Open(r) \/ Send(r) \/ Answer(r) \/ Stray(r)) \/ Launch

Spec == Fresh /\ [][Next]_vars
=============================================================================
