--------------------------- MODULE RequestPipeline ---------------------------
(***************************************************************************)
(* The way of a request to the server: LMInnerTubeSession waits for two    *)
(* green lights, the signature of LMRequestCryptoManager (which registers  *)
(* the device once per install) and the private token of                   *)
(* LMAccessTokenManager (which needs a general one first), then starts the *)
(* task whose answer completes the LMInnerTubeRequest.                     *)
(*                                                                         *)
(* The main thread starts requests, and so do the handlers of answers.     *)
(* Every reply is handled on the serial delegate queue of the shared       *)
(* NSURLSession, between the steps of which the main thread moves.  Both   *)
(* threads run the same session code.  A session is known by the request   *)
(* it carries; the completion lets go of it, and the weak references in    *)
(* the callbacks find nil from then on.                                    *)
(***************************************************************************)
EXTENDS Naturals, FiniteSets

CONSTANTS
    Sessions,       \* the requests made in one launch
    NoSession,
    Registrations,  \* how the device registration may end: "ok", "keyless", "fail"
    TokenReplies,   \* how a token request may end: "ok", "stale", "tokenless", "fail"
    Expiry,         \* TRUE: tokens expire as time passes
    MaxLaunches,    \* bound: times the program is started
    MaxTokens       \* bound: token requests of one launch

ASSUME SessionAssumption == NoSession \notin Sessions
ASSUME ReplyAssumption ==
    /\ Registrations \subseteq {"ok", "keyless", "fail"}
    /\ TokenReplies \subseteq {"ok", "stale", "tokenless", "fail"}
ASSUME BoundAssumption == Expiry \in BOOLEAN /\ MaxLaunches \in Nat /\ MaxTokens \in Nat

VARIABLES
    ready,         \* crypto manager: _ready
    registration,  \* "unsent", "sent" or "ended"
    callbacks,     \* _readyCallbacks: the sessions they belong to
    calling,       \* those the loop over _readyCallbacks has still to call
    mutated,       \* _readyCallbacks changed while it was looped over
    general,       \* _generalAccess
    private,       \* _privateAccess
    storedKey,     \* user defaults: the device key
    storedToken,   \* user defaults: what is kept under the private token's key
    run,           \* where each thread is, and in which session
    started, signed, crypto, access, alive,   \* sets of sessions
    auth,          \* the kind of token in the Authorization header
    executed,      \* how many tasks were started for a session
    flying,        \* how many of them are not answered
    completed,     \* how often the completion ran
    tokenNet,      \* token requests in flight
    tokens,        \* how many were sent in this launch
    ended,         \* "": running; "raised" or "crashed"
    launches,
    crossed        \* history: the session whose start saw the device become ready

keys     == <<ready, registration, callbacks, calling, mutated, storedKey>>
access_  == <<general, private, storedToken, tokenNet, tokens>>
lights   == <<signed, crypto, access, auth>>
progress == <<started, alive, executed, flying, completed>>
world    == <<ended, launches, crossed>>
vars == <<keys, access_, run, lights, progress, world>>

Threads == {"main", "queue"}

\* A token by what it gives access to; "garbled" is a private or general one whose
\* bytes were read back past their end.
Kinds == {"none", "general", "private", "garbled"}

IsValid_Untested(kind, future) == future    \* mutant: a model without a token may be valid

IsValid(kind, future) == future /\ kind # "none"

Token(kind, future) == [kind |-> kind, valid |-> IsValid(kind, future)]
NoToken == Token("none", FALSE)

Idle == [at |-> "idle", s |-> NoSession]

NoneOf == [s \in Sessions |-> 0]

\* init of both managers, when the first request needs them.
Init ==
    /\ storedKey \in BOOLEAN /\ storedToken = "none"
    /\ ready = storedKey /\ registration = IF storedKey THEN "ended" ELSE "unsent"
    /\ callbacks = {} /\ calling = {} /\ mutated = FALSE
    /\ general = NoToken /\ private = NoToken
    /\ run = [t \in Threads |-> Idle]
    /\ started = {} /\ alive = {} /\ signed = {} /\ crypto = {} /\ access = {}
    /\ auth = [s \in Sessions |-> "none"]
    /\ executed = NoneOf /\ flying = NoneOf /\ completed = NoneOf
    /\ tokenNet = {} /\ tokens = 0
    /\ ended = "" /\ launches = 1 /\ crossed = NoSession

----------------------------------------------------------------------------
At(t, label) == ended = "" /\ run[t].at = label
Goto(t, label) == run' = [run EXCEPT ![t] = [at |-> label, s |-> @.s]]
Finish(t) == run' = [run EXCEPT ![t] = Idle]

\* The queue is inside setReady: or the rest of the registration's handler.
Announcing == ready /\ ~storedKey

CalledBack_Never(t) == FALSE     \* mutant: a callback asks for the token as well

\* The queue runs the callback of a session, which ends with the light.
CalledBack(t) == t = "queue" /\ Announcing

\* The general token has to be valid before the private one can be asked for.
AskToken(s) ==
    /\ tokens < MaxTokens
    /\ tokens' = tokens + 1
    /\ tokenNet' = tokenNet \cup
           {[scope |-> IF general.valid THEN "private" ELSE "general", s |-> s, n |-> tokens]}

TestAndExecute_Either(s) ==      \* mutant: one light is enough
    IF s \in crypto \/ s \in access
    THEN /\ executed' = [executed EXCEPT ![s] = @ + 1]
         /\ flying' = [flying EXCEPT ![s] = @ + 1]
    ELSE UNCHANGED <<executed, flying>>

TestAndExecute(s) ==
    IF s \in crypto /\ s \in access
    THEN /\ executed' = [executed EXCEPT ![s] = @ + 1]
         /\ flying' = [flying EXCEPT ![s] = @ + 1]
    ELSE UNCHANGED <<executed, flying>>

CallCompletion(s) ==
    /\ completed' = [completed EXCEPT ![s] = @ + 1]
    /\ alive' = alive \ {s}

----------------------------------------------------------------------------
(* LMInnerTubeSession, on the thread that runs it.                         *)

Sign(t) ==
    /\ At(t, "sign")
    /\ signed' = signed \cup {run[t].s}
    /\ Goto(t, "cryptoLight")
    /\ UNCHANGED <<keys, access_, crypto, access, auth, progress, world>>

CryptoLight(t) ==
    /\ At(t, "cryptoLight")
    /\ crypto' = crypto \cup {run[t].s}
    /\ Goto(t, "cryptoTest")
    /\ UNCHANGED <<keys, access_, signed, access, auth, progress, world>>

CryptoTest(t) ==
    /\ At(t, "cryptoTest")
    /\ TestAndExecute(run[t].s)
    /\ Goto(t, IF CalledBack(t) THEN "calling" ELSE "token")
    /\ UNCHANGED <<keys, access_, lights, started, alive, completed, world>>

Authorize(t) ==
    /\ At(t, "authorize")
    /\ auth' = [auth EXCEPT ![run[t].s] = private.kind]
    /\ Goto(t, "accessLight")
    /\ UNCHANGED <<keys, access_, signed, crypto, access, progress, world>>

AccessLight(t) ==
    /\ At(t, "accessLight")
    /\ access' = access \cup {run[t].s}
    /\ Goto(t, "accessTest")
    /\ UNCHANGED <<keys, access_, signed, crypto, auth, progress, world>>

AccessTest(t) ==
    /\ At(t, "accessTest")
    /\ TestAndExecute(run[t].s)
    /\ Finish(t)
    /\ UNCHANGED <<keys, access_, lights, started, alive, completed, world>>

Session(t) == \/ Sign(t) \/ CryptoLight(t) \/ CryptoTest(t)
              \/ Authorize(t) \/ AccessLight(t) \/ AccessTest(t)

(* complete.  The first one makes the crypto manager, which registers the  *)
(* device if it has no key.  What the handler of an answer starts is taken *)
(* as a step of its own of the queue.                                      *)

Start(t, s) ==
    /\ At(t, "idle")
    /\ s \notin started
    /\ t = "queue" => \E r \in Sessions : executed[r] > 0 /\ completed[r] > 0
    /\ started' = started \cup {s}
    /\ alive' = alive \cup {s}
    /\ registration' = IF registration = "unsent" THEN "sent" ELSE registration
    /\ run' = [run EXCEPT ![t] = [at |-> "ready", s |-> s]]
    /\ UNCHANGED <<ready, callbacks, calling, mutated, storedKey, access_, lights,
                   executed, flying, completed, world>>

TestReady(t) ==
    /\ At(t, "ready")
    /\ Goto(t, IF ready THEN "sign" ELSE "add")
    /\ UNCHANGED <<keys, access_, lights, progress, world>>

\* The array is being looped over from the first callback fetched to the last.
AddCallback(t) ==
    /\ At(t, "add")
    /\ callbacks' = callbacks \cup {run[t].s}
    /\ mutated' = \/ mutated
                  \/ Announcing /\ run["queue"].at \in {"calling", "sign", "cryptoLight", "cryptoTest"}
    /\ Goto(t, "token")
    /\ UNCHANGED <<ready, registration, calling, storedKey, access_, lights,
                   progress, world>>

TestToken(t) ==
    /\ At(t, "token")
    /\ Goto(t, IF private.valid THEN "authorize" ELSE "update")
    /\ UNCHANGED <<keys, access_, lights, progress, world>>

UpdateToken(t) ==
    /\ At(t, "update")
    /\ AskToken(run[t].s)
    /\ Finish(t)
    /\ UNCHANGED <<keys, general, private, storedToken, lights, progress, world>>

Complete(t) == \/ TestReady(t) \/ AddCallback(t) \/ TestToken(t) \/ UpdateToken(t)

----------------------------------------------------------------------------
(* The delegate queue: the device registration.                            *)

RegistrationFails ==
    /\ At("queue", "idle")
    /\ registration = "sent" /\ "fail" \in Registrations
    /\ registration' = "ended"
    /\ UNCHANGED <<ready, callbacks, calling, mutated, storedKey, access_, run,
                   lights, progress, world>>

\* A reply without a key is no text to decode.
KeyMissing ==
    /\ At("queue", "idle")
    /\ registration = "sent" /\ "keyless" \in Registrations
    /\ ended' = "raised"
    /\ UNCHANGED <<keys, access_, run, lights, progress, launches, crossed>>

Registered ==
    /\ At("queue", "idle")
    /\ registration = "sent" /\ "ok" \in Registrations
    /\ registration' = "ended"
    /\ ready' = TRUE
    /\ crossed' = run["main"].s
    /\ Goto("queue", "loop")
    /\ UNCHANGED <<callbacks, calling, mutated, storedKey, access_, lights, progress,
                   ended, launches>>

ToCall_None == {}                \* mutant: becoming ready calls nobody
ToCall == callbacks

BeginCalls ==
    /\ At("queue", "loop")
    /\ calling' = ToCall
    /\ Goto("queue", IF ToCall = {} THEN "archive" ELSE "calling")
    /\ UNCHANGED <<ready, registration, callbacks, mutated, storedKey, access_,
                   lights, progress, world>>

NextCall ==
    /\ At("queue", "calling")
    /\ ~mutated
    /\ \E s \in calling :
           /\ calling' = calling \ {s}
           /\ run' = IF s \in alive THEN [run EXCEPT !["queue"] = [at |-> "sign", s |-> s]]
                     ELSE run
    /\ UNCHANGED <<ready, registration, callbacks, mutated, storedKey, access_,
                   lights, progress, world>>

\* A callback added after the last one was fetched may go unnoticed.
EndCalls ==
    /\ At("queue", "calling")
    /\ calling = {}
    /\ Goto("queue", "archive")
    /\ UNCHANGED <<keys, access_, lights, progress, world>>

Archive ==
    /\ At("queue", "archive")
    /\ storedKey' = TRUE
    /\ Finish("queue")
    /\ UNCHANGED <<ready, registration, callbacks, calling, mutated, access_, lights,
                   progress, world>>

\* Fast enumeration raises when the array was mutated.
RaiseMutated ==
    /\ At("queue", "calling")
    /\ mutated
    /\ ended' = "raised"
    /\ UNCHANGED <<keys, access_, run, lights, progress, launches, crossed>>

----------------------------------------------------------------------------
(* The delegate queue: token replies.                                      *)

TokenFails(r) ==
    /\ At("queue", "idle")
    /\ "fail" \in TokenReplies
    /\ tokenNet' = tokenNet \ {r}
    /\ IF r.s \in alive THEN CallCompletion(r.s) ELSE UNCHANGED <<completed, alive>>
    /\ UNCHANGED <<keys, general, private, storedToken, tokens, run, lights, started,
                   executed, flying, world>>

\* A reply without a token makes a model whose dataStore measures a NULL string.
TokenMissing(r) ==
    /\ At("queue", "idle")
    /\ "tokenless" \in TokenReplies
    /\ ended' = "crashed"
    /\ UNCHANGED <<keys, access_, run, lights, progress, launches, crossed>>

\* A reply that has expired when it arrives, or holds no expiry, is kept all the same.
Granted == {v \in BOOLEAN : (IF v THEN "ok" ELSE "stale") \in TokenReplies}

\* The general token is stored under the private token's key.
GeneralReply(r) ==
    /\ At("queue", "idle")
    /\ r.scope = "general"
    /\ \E v \in Granted : general' = Token("general", v)
    /\ storedToken' = "general"
    /\ tokenNet' = tokenNet \ {r}
    /\ run' = [run EXCEPT !["queue"] = [at |-> "again", s |-> r.s]]
    /\ UNCHANGED <<keys, private, tokens, lights, progress, world>>

AskAgain ==
    /\ At("queue", "again")
    /\ AskToken(run["queue"].s)
    /\ Finish("queue")
    /\ UNCHANGED <<keys, general, private, storedToken, lights, progress, world>>

PrivateReply(r) ==
    /\ At("queue", "idle")
    /\ r.scope = "private"
    /\ \E v \in Granted : private' = Token("private", v)
    /\ storedToken' = "private"
    /\ tokenNet' = tokenNet \ {r}
    /\ run' = IF r.s \in alive THEN [run EXCEPT !["queue"] = [at |-> "authorize", s |-> r.s]]
              ELSE run
    /\ UNCHANGED <<keys, general, tokens, lights, progress, world>>

(* The delegate queue: the answer to the request itself, or its error.     *)

TaskReply(s) ==
    /\ At("queue", "idle")
    /\ flying[s] > 0
    /\ flying' = [flying EXCEPT ![s] = @ - 1]
    /\ CallCompletion(s)
    /\ UNCHANGED <<keys, access_, run, lights, started, executed, world>>

Main == Session("main") \/ Complete("main")

Queue == \/ Session("queue") \/ Complete("queue")
         \/ BeginCalls \/ NextCall \/ EndCalls \/ RaiseMutated \/ Archive \/ AskAgain

Reply == \/ RegistrationFails \/ KeyMissing \/ Registered
         \/ \E r \in tokenNet : TokenFails(r) \/ TokenMissing(r) \/ GeneralReply(r) \/ PrivateReply(r)
         \/ \E s \in Sessions : TaskReply(s)

----------------------------------------------------------------------------
Expire ==
    /\ Expiry /\ ended = ""
    /\ \/ general.valid /\ general' = [general EXCEPT !.valid = FALSE] /\ UNCHANGED private
       \/ private.valid /\ private' = [private EXCEPT !.valid = FALSE] /\ UNCHANGED general
    /\ UNCHANGED <<keys, storedToken, tokenNet, tokens, run, lights, progress, world>>

\* The bytes of a stored token are read back without their end: intact, with what
\* follows them, or as no string at all.
ReadBack == IF storedToken = "none" THEN {NoToken}
            ELSE {Token(k, f) : k \in {storedToken, "garbled", "none"}, f \in BOOLEAN}

\* The program ends, by an exception, a crash or the user, and is started again.
Relaunch ==
    /\ launches < MaxLaunches
    /\ launches' = launches + 1
    /\ private' \in ReadBack
    /\ ready' = storedKey /\ registration' = IF storedKey THEN "ended" ELSE "unsent"
    /\ callbacks' = {} /\ calling' = {} /\ mutated' = FALSE
    /\ general' = NoToken
    /\ run' = [t \in Threads |-> Idle]
    /\ started' = {} /\ alive' = {} /\ signed' = {} /\ crypto' = {} /\ access' = {}
    /\ auth' = [s \in Sessions |-> "none"]
    /\ executed' = NoneOf /\ flying' = NoneOf /\ completed' = NoneOf
    /\ tokenNet' = {} /\ tokens' = 0
    /\ ended' = "" /\ crossed' = NoSession
    /\ UNCHANGED <<storedKey, storedToken>>

Next == (\E t \in Threads, s \in Sessions : Start(t, s)) \/ Main \/ Queue \/ Reply \/ Expire \/ Relaunch

Spec == Init /\ [][Next]_vars

\* Both threads run and NSURLSession answers every task, if only with an error.
Fairness == WF_vars(Main) /\ WF_vars(Queue) /\ WF_vars(Reply)

FairSpec == Spec /\ Fairness

----------------------------------------------------------------------------
Labels == {"idle", "ready", "add", "token", "update", "sign", "cryptoLight", "cryptoTest",
           "authorize", "accessLight", "accessTest", "loop", "calling", "archive", "again"}

RunOK ==
    /\ run \in [Threads -> [at : Labels, s : Sessions \cup {NoSession}]]
    /\ \A t \in Threads : run[t].at \notin {"idle", "loop", "calling", "archive"} => run[t].s \in Sessions

TokensOK ==
    /\ \A token \in {general, private} :
           token \in [kind : Kinds, valid : BOOLEAN] /\ (token.valid => token.kind # "none")
    /\ tokenNet \subseteq [scope : {"general", "private"}, s : Sessions, n : Nat]
    /\ tokens \in Nat

ProgressOK ==
    /\ started \subseteq Sessions /\ alive \subseteq Sessions /\ signed \subseteq Sessions
    /\ crypto \subseteq Sessions /\ access \subseteq Sessions
    /\ auth \in [Sessions -> Kinds]
    /\ executed \in [Sessions -> Nat] /\ flying \in [Sessions -> Nat]
    /\ completed \in [Sessions -> Nat]

TypeOK ==
    /\ ready \in BOOLEAN /\ registration \in {"unsent", "sent", "ended"}
    /\ callbacks \subseteq Sessions /\ calling \subseteq Sessions
    /\ mutated \in BOOLEAN /\ storedKey \in BOOLEAN
    /\ storedToken \in Kinds
    /\ RunOK
    /\ ProgressOK
    /\ TokensOK /\ launches \in Nat
    /\ ended \in {"", "raised", "crashed"}
    /\ crossed \in Sessions \cup {NoSession}

\* What the threads know of a session between their steps: a task is started only behind
\* both lights, and each light only behind its part of the request.
Prepared(t) ==
    /\ run[t].at \in {"cryptoLight", "cryptoTest"} => run[t].s \in signed
    /\ run[t].at = "authorize" => private.kind # "none"
    /\ run[t].at \in {"accessLight", "accessTest"} => auth[run[t].s] # "none"

LightsInv ==
    /\ crypto \subseteq signed
    /\ \A s \in access : auth[s] # "none"
    /\ \A s \in Sessions : executed[s] > 0 => s \in crypto /\ s \in access
    /\ \A t \in Threads : Prepared(t)

Outside == {"idle", "loop", "calling", "archive"}

In(t, s) == run[t].s = s /\ run[t].at \notin Outside

Unsigned(t) == run[t].at \in {"ready", "add", "sign", "cryptoLight"}
Unauthorised(t) == run[t].at # "accessTest" /\ ~CalledBack(t)

\* The callback of s is still to be called.
Waiting(s) == \/ s \in calling
              \/ s \in callbacks /\ (~ready \/ run["queue"].at = "loop")

Asked(s) == {r \in tokenNet : r.s = s}

\* The device becomes ready once, and the queue then does nothing but call and archive.
CallsInv ==
    /\ ready => registration = "ended"
    /\ registration # "ended" => ~storedKey /\ crossed = NoSession
    /\ run["queue"].at \in {"loop", "calling", "archive"} => Announcing
    /\ Announcing => run["queue"].at \in
           {"loop", "calling", "archive", "sign", "cryptoLight", "cryptoTest"}
    /\ calling # {} => Announcing /\ run["queue"].at \notin {"loop", "archive"}

\* One way to the signature, which is not passed twice.
SignedOnce(s) ==
    /\ Waiting(s) => /\ s \notin crypto
                     /\ \A t \in Threads : In(t, s) =>
                            ~ready /\ ~Unsigned(t) /\ run[t].at # "cryptoTest"
    /\ \A t \in Threads : In(t, s) /\ Unsigned(t) => s \notin crypto
    /\ \A t \in Threads : In(t, s) /\ run[t].at = "add" => ~ready
    /\ s \in alive => s \in crypto \/ Waiting(s) \/ \E t \in Threads : In(t, s) /\ Unsigned(t)

\* One way to the token, in a thread or in the net, which is not passed twice.
AuthorisedOnce(s) ==
    /\ \A t \in Threads : In(t, s) /\ ~CalledBack(t) => Asked(s) = {}
    /\ \A t \in Threads : In(t, s) /\ Unauthorised(t) => s \notin access
    /\ \A r, q \in Asked(s) : r = q
    /\ Asked(s) # {} => s \notin access

\* The later of the two tests starts the task, and nobody tests after it.
TestedOnce(s) ==
    /\ executed[s] <= 1
    /\ executed[s] > 0 =>
           \A t \in Threads : In(t, s) => run[t].at \notin {"cryptoTest", "accessTest"}

\* A completion answers a task, or ends the way to the token.
AnsweredOnce(s) ==
    \/ completed[s] + flying[s] = executed[s]
    \/ /\ completed[s] = 1 /\ flying[s] = 0
       /\ s \notin access /\ Asked(s) = {}
       /\ \A t \in Threads : In(t, s) => ~Unauthorised(t)

Untouched(s) ==
    /\ \A t \in Threads : ~In(t, s)
    /\ s \notin callbacks \cup calling \cup crypto \cup access
    /\ Asked(s) = {}
    /\ executed[s] = 0 /\ flying[s] = 0 /\ completed[s] = 0

Once(s) ==
    /\ ~(In("main", s) /\ In("queue", s))
    /\ SignedOnce(s) /\ AuthorisedOnce(s) /\ TestedOnce(s) /\ AnsweredOnce(s)
    /\ s \notin started => Untouched(s)

OnceInv == CallsInv /\ \A s \in Sessions \ {crossed} : Once(s)

\* The pipeline stays well formed: typed, each light behind its part of the request, and
\* every request but the one that saw the device become ready on one way to each light,
\* in one place on it, whatever the two threads and the replies do in between.
PipelineInv == TypeOK /\ LightsInv /\ OnceInv

\* No task is started for a request that is not both signed and authorised, although
\* the two happen on two threads in either order.
SentComplete == \A s \in Sessions : executed[s] > 0 => s \in signed /\ auth[s] # "none"

\* A request is sent at most once and its completion runs at most once, for every
\* request but the one being started when the device becomes ready.
AtMostOnce == \A s \in Sessions \ {crossed} : executed[s] <= 1 /\ completed[s] <= 1

\* Once the device is ready and its callbacks have run, no request waits for its
\* signature, but for the one being started when it became ready.
NobodyForgotten ==
    (ready /\ storedKey /\ ended = "")
        => \A s \in alive \ ({crossed} \cup {run[t].s : t \in Threads}) : s \in crypto

\* The pipeline as those see it who make requests: RequestPromise, to which the request
\* whose start saw the device become ready is the stray one.
Promise == INSTANCE RequestPromise WITH
    Requests <- Sessions, opened <- started, sent <- executed, answered <- completed,
    stray <- {crossed} \ {NoSession}

\* The pipeline implements RequestPromise: it sends a request once and completes it once at
\* most, and sends nothing any more that it completed with an error, although the lights
\* of one request are tested by two threads and a token request may fail in between.
KeepsPromise == Promise!Spec

\* The bound on token requests holds a thread up.
HeldUp == tokens = MaxTokens /\ \E t \in Threads : run[t].at \in {"update", "again"}

\* Every request that is started is completed, with an answer or an error, unless the
\* program ends first, the registration failed, or it is the one being started when
\* the device became ready.
AnswersComeBack ==
    \A s \in Sessions : s \in started ~>
        \/ completed[s] > 0 \/ s \notin started \/ ended # "" \/ s = crossed
        \/ registration = "ended" /\ ~ready
        \/ HeldUp
=============================================================================
