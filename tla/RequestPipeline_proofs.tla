------------------------ MODULE RequestPipeline_proofs ------------------------
(***************************************************************************)
(* No task is sent half prepared or twice, no completion runs twice and no *)
(* request is forgotten, but the one that saw the device become ready: for *)
(* any set of requests, any outcome of the registration and the token      *)
(* requests, and any bounds.                                               *)
(***************************************************************************)
EXTENDS RequestPipeline, TLAPS

\* A thread that goes on in its session stays well placed.
LEMMA GotoRun ==
    ASSUME RunOK, NEW t \in Threads, NEW label \in Labels, Goto(t, label),
           label \in {"loop", "calling", "archive"} \/ run[t].s \in Sessions
    PROVE  RunOK'
<1> DEFINE R == [at : Labels, s : Sessions \cup {NoSession}]
<1>1. [at |-> label, s |-> run[t].s] \in R
  BY DEF RunOK
<1>2. run' = [run EXCEPT ![t] = [at |-> label, s |-> run[t].s]]
  BY DEF Goto, RunOK
<1>3. run' \in [Threads -> R]
  BY <1>1, <1>2 DEF RunOK
<1>4. \A u \in Threads : run'[u] = IF u = t THEN [at |-> label, s |-> run[t].s] ELSE run[u]
  BY <1>2 DEF RunOK
<1> QED
  BY <1>3, <1>4 DEF RunOK

\* So does one that begins another session, or a step in one.
LEMMA PutRun ==
    ASSUME RunOK, NEW t \in Threads, NEW label \in Labels, NEW s \in Sessions,
           run' = [run EXCEPT ![t] = [at |-> label, s |-> s]]
    PROVE  RunOK'
<1> DEFINE R == [at : Labels, s : Sessions \cup {NoSession}]
<1>1. run' \in [Threads -> R]
  BY DEF RunOK
<1>2. \A u \in Threads : run'[u] = IF u = t THEN [at |-> label, s |-> s] ELSE run[u]
  BY DEF RunOK
<1> QED
  BY <1>1, <1>2 DEF RunOK

\* And one that leaves its session.
LEMMA FinishRun ==
    ASSUME RunOK, NEW t \in Threads, Finish(t)
    PROVE  RunOK'
<1> DEFINE R == [at : Labels, s : Sessions \cup {NoSession}]
<1>1. Idle \in R
  BY DEF Idle, Labels
<1>2. run' \in [Threads -> R]
  BY <1>1 DEF RunOK, Finish
<1>3. \A u \in Threads : run'[u] = IF u = t THEN Idle ELSE run[u]
  BY DEF RunOK, Finish
<1> QED
  BY <1>2, <1>3 DEF RunOK, Idle

\* Testing the lights counts the tasks it starts.
LEMMA TestCounts ==
    ASSUME ProgressOK, NEW s \in Sessions, TestAndExecute(s)
    PROVE  /\ executed' \in [Sessions -> Nat] /\ flying' \in [Sessions -> Nat]
           /\ \A r \in Sessions : executed'[r] # executed[r] => r \in crypto /\ r \in access
<1>1. \A f \in [Sessions -> Nat] : [f EXCEPT ![s] = @ + 1] \in [Sessions -> Nat]
  OBVIOUS
<1>2. \A r \in Sessions \ {s} : executed'[r] = executed[r]
  BY DEF TestAndExecute, ProgressOK
<1> QED
  BY <1>1, <1>2 DEF TestAndExecute, ProgressOK

\* A token is asked for in some session.
LEMMA AskTokens ==
    ASSUME TokensOK, NEW s \in Sessions, AskToken(s), UNCHANGED <<general, private>>
    PROVE  TokensOK'
<1>1. [scope |-> IF general.valid THEN "private" ELSE "general", s |-> s, n |-> tokens]
          \in [scope : {"general", "private"}, s : Sessions, n : Nat]
  BY DEF TokensOK
<1>2. tokenNet' \subseteq [scope : {"general", "private"}, s : Sessions, n : Nat]
  BY <1>1 DEF AskToken, TokensOK
<1>3. tokens' \in Nat
  BY DEF AskToken, TokensOK
<1> QED
  BY <1>2, <1>3 DEF TokensOK

\* The type invariant is kept by the steps that both threads take in a session.
LEMMA SessionType ==
    ASSUME TypeOK, NEW t \in Threads, Session(t) \/ Complete(t)
    PROVE  TypeOK'
<1>r. RunOK /\ ProgressOK /\ TokensOK
  BY DEF TypeOK
<1>s. run[t].at \notin {"idle", "loop", "calling", "archive"} => run[t].s \in Sessions
  BY <1>r DEF RunOK
<1>1. CASE Sign(t)
  <2>1. RunOK'
    BY <1>1, <1>r, <1>s, GotoRun DEF Sign, At, Labels
  <2> QED
    BY <1>1, <1>s, <2>1 DEF Sign, At, TypeOK, ProgressOK, TokensOK, keys, access_, progress, world
<1>2. CASE CryptoLight(t)
  <2>1. RunOK'
    BY <1>2, <1>r, <1>s, GotoRun DEF CryptoLight, At, Labels
  <2> QED
    BY <1>2, <1>s, <2>1 DEF CryptoLight, At, TypeOK, ProgressOK, TokensOK, keys, access_, progress, world
<1>3. CASE CryptoTest(t)
  <2>1. RunOK'
    BY <1>3, <1>r, <1>s, GotoRun DEF CryptoTest, At, Labels
  <2>2. executed' \in [Sessions -> Nat] /\ flying' \in [Sessions -> Nat]
    BY <1>3, <1>r, <1>s, TestCounts DEF CryptoTest, At
  <2> QED
    BY <1>3, <2>1, <2>2 DEF CryptoTest, TypeOK, ProgressOK, TokensOK, keys, access_, lights, world
<1>4. CASE Authorize(t)
  <2>1. RunOK'
    BY <1>4, <1>r, <1>s, GotoRun DEF Authorize, At, Labels
  <2> QED
    BY <1>4, <1>s, <2>1 DEF Authorize, At, TypeOK, ProgressOK, TokensOK, keys, access_, progress, world
<1>5. CASE AccessLight(t)
  <2>1. RunOK'
    BY <1>5, <1>r, <1>s, GotoRun DEF AccessLight, At, Labels
  <2> QED
    BY <1>5, <1>s, <2>1 DEF AccessLight, At, TypeOK, ProgressOK, TokensOK, keys, access_, progress, world
<1>6. CASE AccessTest(t)
  <2>1. RunOK'
    BY <1>6, <1>r, FinishRun DEF AccessTest
  <2>2. executed' \in [Sessions -> Nat] /\ flying' \in [Sessions -> Nat]
    BY <1>6, <1>r, <1>s, TestCounts DEF AccessTest, At
  <2> QED
    BY <1>6, <2>1, <2>2 DEF AccessTest, TypeOK, ProgressOK, TokensOK, keys, access_, lights, world
<1>7. CASE TestReady(t)
  <2>1. RunOK'
    BY <1>7, <1>r, <1>s, GotoRun DEF TestReady, At, Labels
  <2> QED
    BY <1>7, <2>1 DEF TestReady, TypeOK, ProgressOK, TokensOK, keys, access_, lights, progress, world
<1>8. CASE AddCallback(t)
  <2>1. RunOK'
    BY <1>8, <1>r, <1>s, GotoRun DEF AddCallback, At, Labels
  <2> QED
    BY <1>8, <1>s, <2>1 DEF AddCallback, Announcing, At, TypeOK, ProgressOK, TokensOK, access_, lights, progress, world
<1>9. CASE TestToken(t)
  <2>1. RunOK'
    BY <1>9, <1>r, <1>s, GotoRun DEF TestToken, At, Labels
  <2> QED
    BY <1>9, <2>1 DEF TestToken, TypeOK, ProgressOK, TokensOK, keys, access_, lights, progress, world
<1>10. CASE UpdateToken(t)
  <2>1. RunOK'
    BY <1>10, <1>r, FinishRun DEF UpdateToken
  <2>2. TokensOK'
    BY <1>10, <1>r, <1>s, AskTokens DEF UpdateToken, At
  <2> QED
    BY <1>10, <2>1, <2>2 DEF UpdateToken, TypeOK, ProgressOK, keys, lights, progress, world
<1> QED
  BY <1>1, <1>2, <1>3, <1>4, <1>5, <1>6, <1>7, <1>8, <1>9, <1>10 DEF Session, Complete

\* The type invariant is kept by the other steps of the queue.
LEMMA QueueType ==
    ASSUME TypeOK, BeginCalls \/ NextCall \/ EndCalls \/ RaiseMutated \/ Archive \/ AskAgain
    PROVE  TypeOK'
<1>r. RunOK /\ ProgressOK /\ TokensOK /\ "queue" \in Threads
  BY DEF TypeOK, Threads
<1>1. CASE BeginCalls
  <2>1. RunOK'
    BY <1>1, <1>r, GotoRun DEF BeginCalls, Labels
  <2> QED
    BY <1>1, <2>1 DEF BeginCalls, ToCall, TypeOK, ProgressOK, TokensOK, access_, lights, progress, world
<1>2. CASE NextCall
  <2>1. PICK s \in calling :
            run' = IF s \in alive THEN [run EXCEPT !["queue"] = [at |-> "sign", s |-> s]] ELSE run
    BY <1>2 DEF NextCall
  <2>2. s \in Sessions
    BY DEF TypeOK
  <2>3. RunOK'
    <3>1. CASE s \in alive
      BY <1>r, <2>1, <2>2, <3>1, PutRun DEF Labels
    <3>2. CASE s \notin alive
      BY <1>r, <2>1, <3>2 DEF RunOK
    <3> QED
      BY <3>1, <3>2
  <2> QED
    BY <1>2, <2>3 DEF NextCall, TypeOK, ProgressOK, TokensOK, access_, lights, progress, world
<1>3. CASE EndCalls
  <2>1. RunOK'
    BY <1>3, <1>r, GotoRun DEF EndCalls, Labels
  <2> QED
    BY <1>3, <2>1 DEF EndCalls, TypeOK, ProgressOK, TokensOK, keys, access_, lights, progress, world
<1>4. CASE RaiseMutated
  BY <1>4 DEF RaiseMutated, TypeOK, RunOK, ProgressOK, TokensOK, keys, access_, lights, progress
<1>5. CASE Archive
  <2>1. RunOK'
    BY <1>5, <1>r, FinishRun DEF Archive
  <2> QED
    BY <1>5, <2>1 DEF Archive, TypeOK, ProgressOK, TokensOK, access_, lights, progress, world
<1>6. CASE AskAgain
  <2>1. RunOK'
    BY <1>6, <1>r, FinishRun DEF AskAgain
  <2>2. run["queue"].s \in Sessions
    BY <1>6, <1>r DEF AskAgain, At, RunOK
  <2>3. TokensOK'
    BY <1>6, <1>r, <2>2, AskTokens DEF AskAgain
  <2> QED
    BY <1>6, <2>1, <2>3 DEF AskAgain, TypeOK, ProgressOK, keys, lights, progress, world
<1> QED
  BY <1>1, <1>2, <1>3, <1>4, <1>5, <1>6

\* The completion counts and lets go.
LEMMA CompletionCounts ==
    ASSUME ProgressOK, NEW s \in Sessions, CallCompletion(s)
    PROVE  completed' \in [Sessions -> Nat] /\ alive' \subseteq Sessions
BY DEF ProgressOK, CallCompletion

\* The type invariant is kept by every reply.
LEMMA ReplyType ==
    ASSUME TypeOK, Reply
    PROVE  TypeOK'
<1>r. RunOK /\ ProgressOK /\ TokensOK /\ "queue" \in Threads /\ "main" \in Threads
  BY DEF TypeOK, Threads
<1>1. CASE RegistrationFails
  BY <1>1 DEF RegistrationFails, TypeOK, RunOK, ProgressOK, TokensOK, access_, lights, progress, world
<1>2. CASE Registered
  <2>1. RunOK'
    BY <1>2, <1>r, GotoRun DEF Registered, Labels
  <2>2. crossed' \in Sessions \cup {NoSession}
    BY <1>2, <1>r DEF Registered, RunOK
  <2> QED
    BY <1>2, <2>1, <2>2 DEF Registered, TypeOK, ProgressOK, TokensOK, access_, lights, progress
<1>3. ASSUME NEW r \in tokenNet PROVE r.s \in Sessions /\ tokenNet \ {r} \subseteq tokenNet
  BY <1>r DEF TokensOK
<1>4. ASSUME NEW r \in tokenNet, TokenFails(r) PROVE TypeOK'
  <2>1. completed' \in [Sessions -> Nat] /\ alive' \subseteq Sessions
    BY <1>r, <1>3, <1>4, CompletionCounts DEF TokenFails, ProgressOK
  <2> QED
    BY <1>3, <1>4, <2>1 DEF TokenFails, TypeOK, RunOK, ProgressOK, TokensOK, keys, lights, world
<1>9. CASE KeyMissing
  BY <1>9 DEF KeyMissing, TypeOK, RunOK, ProgressOK, TokensOK, keys, access_, lights, progress
<1>5. ASSUME NEW r \in tokenNet, TokenMissing(r) PROVE TypeOK'
  BY <1>5 DEF TokenMissing, TypeOK, RunOK, ProgressOK, TokensOK, keys, access_, lights, progress
<1>t. \A k \in Kinds \ {"none"}, v \in BOOLEAN :
          /\ Token(k, v) \in [kind : Kinds, valid : BOOLEAN]
          /\ Token(k, v).valid => Token(k, v).kind # "none"
  BY DEF Token, IsValid
<1>6. ASSUME NEW r \in tokenNet, GeneralReply(r) PROVE TypeOK'
  <2>1. RunOK'
    BY <1>6, <1>3, <1>r, PutRun DEF GeneralReply, Labels
  <2>2. PICK v \in BOOLEAN : general' = Token("general", v)
    BY <1>6 DEF GeneralReply, Granted
  <2>3. TokensOK'
    BY <1>r, <1>t, <1>3, <1>6, <2>2 DEF GeneralReply, TokensOK, Kinds
  <2> QED
    BY <1>6, <2>1, <2>3 DEF GeneralReply, TypeOK, ProgressOK, keys, lights, progress, world, Kinds
<1>7. ASSUME NEW r \in tokenNet, PrivateReply(r) PROVE TypeOK'
  <2>1. RunOK'
    <3>1. CASE r.s \in alive
      BY <1>7, <1>3, <1>r, <3>1, PutRun DEF PrivateReply, Labels
    <3>2. CASE r.s \notin alive
      BY <1>7, <1>r, <3>2 DEF PrivateReply, RunOK
    <3> QED
      BY <3>1, <3>2
  <2>2. PICK v \in BOOLEAN : private' = Token("private", v)
    BY <1>7 DEF PrivateReply, Granted
  <2>3. TokensOK'
    BY <1>r, <1>t, <1>3, <1>7, <2>2 DEF PrivateReply, TokensOK, Kinds
  <2> QED
    BY <1>7, <2>1, <2>3 DEF PrivateReply, TypeOK, ProgressOK, keys, lights, progress, world, Kinds
<1>8. ASSUME NEW s \in Sessions, TaskReply(s) PROVE TypeOK'
  <2>1. completed' \in [Sessions -> Nat] /\ alive' \subseteq Sessions
    BY <1>r, <1>8, CompletionCounts DEF TaskReply
  <2>2. flying' \in [Sessions -> Nat]
    BY <1>r, <1>8 DEF TaskReply, ProgressOK
  <2> QED
    BY <1>8, <2>1, <2>2 DEF TaskReply, TypeOK, RunOK, ProgressOK, TokensOK, keys, access_, lights, world
<1> QED
  BY <1>1, <1>2, <1>4, <1>5, <1>6, <1>7, <1>8, <1>9 DEF Reply

\* A session begins typed.
LEMMA StartType ==
    ASSUME TypeOK, NEW t \in Threads, NEW s \in Sessions, Start(t, s)
    PROVE  TypeOK'
<1>1. RunOK'
  BY PutRun DEF TypeOK, Start, Labels
<1> QED
  BY <1>1 DEF Start, TypeOK, ProgressOK, TokensOK, access_, lights, world

\* Time only makes tokens invalid.
LEMMA ExpireType ==
    ASSUME TypeOK, Expire
    PROVE  /\ TypeOK'
           /\ private'.kind = private.kind
           /\ private'.valid => private.valid
           /\ UNCHANGED <<lights, progress, run>>
<1>r. TokensOK
  BY DEF TypeOK
<1>1. \A token \in [kind : Kinds, valid : BOOLEAN] :
          /\ [token EXCEPT !.valid = FALSE] \in [kind : Kinds, valid : BOOLEAN]
          /\ [token EXCEPT !.valid = FALSE].kind = token.kind
          /\ ~[token EXCEPT !.valid = FALSE].valid
  OBVIOUS
<1>2. /\ TokensOK'
      /\ private'.kind = private.kind
      /\ private'.valid => private.valid
  BY <1>r, <1>1 DEF Expire, TokensOK
<1> QED
  BY <1>2 DEF Expire, TypeOK, RunOK, ProgressOK, keys, lights, progress, world

\* What a launch reads back is a token, and valid only if it is one.
LEMMA ReadBackType ==
    ASSUME TypeOK, NEW token \in ReadBack
    PROVE  token \in [kind : Kinds, valid : BOOLEAN] /\ (token.valid => token.kind # "none")
<1>1. \A k \in Kinds, f \in BOOLEAN :
          /\ Token(k, f) \in [kind : Kinds, valid : BOOLEAN]
          /\ Token(k, f).valid => Token(k, f).kind # "none"
  BY DEF Token, IsValid
<1>2. NoToken \in [kind : Kinds, valid : BOOLEAN] /\ ~NoToken.valid
  BY DEF NoToken, Token, IsValid, Kinds
<1>3. storedToken \in Kinds
  BY DEF TypeOK
<1> QED
  BY <1>1, <1>2, <1>3 DEF ReadBack, Kinds

\* A launch begins typed.
LEMMA RelaunchType ==
    ASSUME TypeOK, Relaunch
    PROVE  TypeOK'
<1>1. TokensOK'
  <2>1. NoToken \in [kind : Kinds, valid : BOOLEAN] /\ ~NoToken.valid
    BY DEF NoToken, Token, IsValid, Kinds
  <2> QED
    BY <2>1, ReadBackType DEF Relaunch, TokensOK
<1>2. RunOK'
  BY DEF Relaunch, RunOK, Idle, Labels
<1>3. ProgressOK'
  BY DEF Relaunch, ProgressOK, NoneOf, Kinds
<1>4. ready' \in BOOLEAN /\ registration' \in {"unsent", "sent", "ended"}
  BY DEF Relaunch, TypeOK
<1>5. storedKey' \in BOOLEAN /\ storedToken' \in Kinds /\ mutated' \in BOOLEAN
  BY DEF Relaunch, TypeOK
<1>7. launches' \in Nat
  <2>1. launches' = launches + 1 /\ launches \in Nat
    BY DEF Relaunch, TypeOK
  <2> QED
    BY <2>1
<1>6. /\ callbacks' \subseteq Sessions /\ calling' \subseteq Sessions
      /\ ended' \in {"", "raised", "crashed"} /\ crossed' \in Sessions \cup {NoSession}
  BY DEF Relaunch
<1> QED
  BY <1>1, <1>2, <1>3, <1>4, <1>5, <1>6, <1>7 DEF TypeOK

\* Every reachable state is well typed; in it a thread inside a session has one, and a
\* token that is valid is there.
THEOREM TypeCorrect == Spec => []TypeOK
<1>1. Init => TypeOK
  <2> SUFFICES ASSUME Init PROVE TypeOK
    OBVIOUS
  <2>1. TokensOK
    <3>1. NoToken \in [kind : Kinds, valid : BOOLEAN] /\ ~NoToken.valid
      BY DEF NoToken, Token, IsValid, Kinds
    <3> QED
      BY <3>1 DEF Init, TokensOK
  <2>2. RunOK
    BY DEF Init, RunOK, Idle, Labels
  <2>3. ProgressOK
    BY DEF Init, ProgressOK, NoneOf, Kinds
  <2> QED
    BY <2>1, <2>2, <2>3 DEF Init, TypeOK, Kinds
<1>2. TypeOK /\ [Next]_vars => TypeOK'
  <2> SUFFICES ASSUME TypeOK, [Next]_vars PROVE TypeOK'
    OBVIOUS
  <2>1. CASE UNCHANGED vars
    BY <2>1 DEF vars, TypeOK, RunOK, ProgressOK, TokensOK, keys, access_, lights, progress, world
  <2>2. CASE Main
    BY <2>2, SessionType DEF Main, Threads
  <2>3. CASE Queue
    BY <2>3, SessionType, QueueType DEF Queue, Threads
  <2> QED
    BY <2>1, <2>2, <2>3, StartType, ReplyType, ExpireType, RelaunchType DEF Next
<1> QED
  BY <1>1, <1>2, PTL DEF Spec

-----------------------------------------------------------------------------
\* What a step leaves of the lights when it touches neither them nor the tasks, and
\* moves only the thread t, to a label that asks for nothing or for what t brings.
LEMMA Moves ==
    ASSUME TypeOK, TypeOK', LightsInv, NEW t \in Threads,
           UNCHANGED <<lights, executed>>,
           private'.kind = private.kind,
           \A u \in Threads \ {t} : run'[u] = run[u],
           Prepared(t)'
    PROVE  LightsInv'
<1>1. \A u \in Threads \ {t} : Prepared(u)'
  BY DEF LightsInv, Prepared, lights
<1> QED
  BY <1>1 DEF LightsInv, lights

\* A session step of either thread keeps the lights behind what they stand for.
LEMMA SessionLights ==
    ASSUME TypeOK, TypeOK', LightsInv, NEW t \in Threads, Session(t) \/ Complete(t)
    PROVE  LightsInv'
<1>r. /\ run \in [Threads -> [at : Labels, s : Sessions \cup {NoSession}]]
      /\ run[t].at \notin {"idle", "loop", "calling", "archive"} => run[t].s \in Sessions
      /\ auth \in [Sessions -> Kinds]
      /\ Prepared(t)
  BY DEF TypeOK, RunOK, ProgressOK, LightsInv
<1>g. \A label \in Labels : Goto(t, label) =>
          /\ run'[t].at = label /\ run'[t].s = run[t].s
          /\ \A u \in Threads \ {t} : run'[u] = run[u]
  BY <1>r DEF Goto
<1>f. Finish(t) => run'[t].at = "idle" /\ \A u \in Threads \ {t} : run'[u] = run[u]
  BY <1>r DEF Finish, Idle
<1>1. CASE Sign(t)
  <2>1. run'[t].at = "cryptoLight" /\ run'[t].s = run[t].s
        /\ \A u \in Threads \ {t} : run'[u] = run[u]
    BY <1>1, <1>g DEF Sign, Labels
  <2> QED
    BY <1>1, <2>1 DEF Sign, LightsInv, Prepared, progress, access_
<1>2. CASE CryptoLight(t)
  <2>1. run'[t].at = "cryptoTest" /\ run'[t].s = run[t].s
        /\ \A u \in Threads \ {t} : run'[u] = run[u]
    BY <1>2, <1>g DEF CryptoLight, Labels
  <2> QED
    BY <1>2, <1>r, <2>1 DEF CryptoLight, At, LightsInv, Prepared, progress, access_
<1>3. CASE CryptoTest(t)
  <2>1. run'[t].at \in {"calling", "token"} /\ \A u \in Threads \ {t} : run'[u] = run[u]
    BY <1>3, <1>g DEF CryptoTest, Labels
  <2>2. \A s \in Sessions : executed'[s] # executed[s] => s \in crypto /\ s \in access
    BY <1>3, <1>r, TestCounts DEF CryptoTest, At, TypeOK
  <2> QED
    BY <1>3, <2>1, <2>2 DEF CryptoTest, LightsInv, Prepared, lights, access_
<1>4. CASE Authorize(t)
  <2>1. run'[t].at = "accessLight" /\ run'[t].s = run[t].s
        /\ \A u \in Threads \ {t} : run'[u] = run[u]
    BY <1>4, <1>g DEF Authorize, Labels
  <2>2. private.kind # "none"
    BY <1>4, <1>r DEF Authorize, At, Prepared
  <2>3. \A s \in Sessions : auth'[s] = auth[s] \/ auth'[s] # "none"
    BY <1>4, <1>r, <2>2 DEF Authorize
  <2>4. auth'[run[t].s] # "none"
    BY <1>4, <1>r, <2>2 DEF Authorize, At
  <2>5. \A s \in access : auth'[s] # "none"
    BY <2>3 DEF LightsInv, TypeOK, ProgressOK
  <2>6. \A u \in Threads \ {t} : Prepared(u)'
    <3> SUFFICES ASSUME NEW u \in Threads \ {t} PROVE Prepared(u)'
      OBVIOUS
    <3>1. Prepared(u) /\ (run[u].at \in {"accessLight", "accessTest"} => run[u].s \in Sessions)
      BY DEF LightsInv, TypeOK, RunOK
    <3> QED
      BY <1>4, <2>1, <2>3, <3>1 DEF Authorize, Prepared, access_
  <2>7. Prepared(t)'
    BY <2>1, <2>4 DEF Prepared
  <2> QED
    BY <1>4, <2>5, <2>6, <2>7 DEF Authorize, LightsInv, progress
<1>5. CASE AccessLight(t)
  <2>1. run'[t].at = "accessTest" /\ run'[t].s = run[t].s
        /\ \A u \in Threads \ {t} : run'[u] = run[u]
    BY <1>5, <1>g DEF AccessLight, Labels
  <2> QED
    BY <1>5, <1>r, <2>1 DEF AccessLight, At, LightsInv, Prepared, progress, access_
<1>6. CASE AccessTest(t)
  <2>1. run'[t].at = "idle" /\ \A u \in Threads \ {t} : run'[u] = run[u]
    BY <1>6, <1>f DEF AccessTest
  <2>2. \A s \in Sessions : executed'[s] # executed[s] => s \in crypto /\ s \in access
    BY <1>6, <1>r, TestCounts DEF AccessTest, At, TypeOK
  <2> QED
    BY <1>6, <2>1, <2>2 DEF AccessTest, LightsInv, Prepared, lights, access_
<1>7. CASE TestReady(t)
  <2>1. run'[t].at \in {"sign", "add"} /\ \A u \in Threads \ {t} : run'[u] = run[u]
    BY <1>7, <1>g DEF TestReady, Labels
  <2> QED
    BY <1>7, <2>1, Moves DEF TestReady, Prepared, progress, access_
<1>8. CASE AddCallback(t)
  <2>1. run'[t].at = "token" /\ \A u \in Threads \ {t} : run'[u] = run[u]
    BY <1>8, <1>g DEF AddCallback, Labels
  <2> QED
    BY <1>8, <2>1, Moves DEF AddCallback, Prepared, progress, access_
<1>9. CASE TestToken(t)
  <2>1. run'[t].at \in {"authorize", "update"} /\ \A u \in Threads \ {t} : run'[u] = run[u]
    BY <1>9, <1>g DEF TestToken, Labels
  <2>2. run'[t].at = "authorize" => private.valid
    BY <1>9, <1>g DEF TestToken, Labels
  <2>3. private' = private /\ (private.valid => private.kind # "none")
    BY <1>9 DEF TestToken, access_, TypeOK, TokensOK
  <2> QED
    BY <1>9, <2>1, <2>2, <2>3, Moves DEF TestToken, Prepared, progress
<1>10. CASE UpdateToken(t)
  <2>1. run'[t].at = "idle" /\ \A u \in Threads \ {t} : run'[u] = run[u]
    BY <1>10, <1>f DEF UpdateToken
  <2> QED
    BY <1>10, <2>1, Moves DEF UpdateToken, Prepared, progress
<1> QED
  BY <1>1, <1>2, <1>3, <1>4, <1>5, <1>6, <1>7, <1>8, <1>9, <1>10 DEF Session, Complete

\* So does every reply, every other step of the queue, and time.
LEMMA OtherLights ==
    ASSUME TypeOK, TypeOK', LightsInv,
           \/ BeginCalls \/ NextCall \/ EndCalls \/ RaiseMutated \/ Archive \/ AskAgain
           \/ Reply \/ Expire
    PROVE  LightsInv'
<1>r. /\ run \in [Threads -> [at : Labels, s : Sessions \cup {NoSession}]]
      /\ "queue" \in Threads
      /\ Prepared("queue")
  BY DEF TypeOK, RunOK, LightsInv, Threads
<1>g. \A label \in Labels : Goto("queue", label) =>
          run'["queue"].at = label /\ \A u \in Threads \ {"queue"} : run'[u] = run[u]
  BY <1>r DEF Goto
<1>f. Finish("queue") => run'["queue"].at = "idle" /\ \A u \in Threads \ {"queue"} : run'[u] = run[u]
  BY <1>r DEF Finish, Idle
<1>p. \A label \in Labels, s \in Sessions : run' = [run EXCEPT !["queue"] = [at |-> label, s |-> s]] =>
          run'["queue"].at = label /\ \A u \in Threads \ {"queue"} : run'[u] = run[u]
  BY <1>r
<1>1. CASE BeginCalls
  <2>1. run'["queue"].at \in {"archive", "calling"} /\ \A u \in Threads \ {"queue"} : run'[u] = run[u]
    BY <1>1, <1>g DEF BeginCalls, Labels
  <2> QED
    BY <1>1, <1>r, <2>1, Moves DEF BeginCalls, Prepared, progress, access_
<1>2. CASE NextCall
  <2>1. PICK s \in calling :
            run' = IF s \in alive THEN [run EXCEPT !["queue"] = [at |-> "sign", s |-> s]] ELSE run
    BY <1>2 DEF NextCall
  <2>2. s \in Sessions
    BY DEF TypeOK
  <2>3. run'["queue"].at \in {"sign", "calling"} /\ \A u \in Threads \ {"queue"} : run'[u] = run[u]
    BY <1>2, <1>p, <2>1, <2>2 DEF NextCall, At, Labels
  <2> QED
    BY <1>2, <1>r, <2>3, Moves DEF NextCall, Prepared, progress, access_
<1>3. CASE EndCalls
  <2>1. run'["queue"].at = "archive" /\ \A u \in Threads \ {"queue"} : run'[u] = run[u]
    BY <1>3, <1>g DEF EndCalls, Labels
  <2> QED
    BY <1>3, <1>r, <2>1, Moves DEF EndCalls, Prepared, progress, access_
<1>4. CASE RaiseMutated
  BY <1>4, <1>r, Moves DEF RaiseMutated, Prepared, progress, access_, lights
<1>5. CASE Archive
  BY <1>5, <1>r, <1>f, Moves DEF Archive, Prepared, progress, access_
<1>6. CASE AskAgain
  BY <1>6, <1>r, <1>f, Moves DEF AskAgain, Prepared, progress
<1>7. CASE RegistrationFails \/ KeyMissing
  BY <1>7, <1>r, Moves DEF RegistrationFails, KeyMissing, Prepared, progress, access_, lights
<1>8. CASE Registered
  <2>1. run'["queue"].at = "loop" /\ \A u \in Threads \ {"queue"} : run'[u] = run[u]
    BY <1>8, <1>g DEF Registered, Labels
  <2> QED
    BY <1>8, <1>r, <2>1, Moves DEF Registered, Prepared, progress, access_
<1>9. ASSUME NEW r \in tokenNet, TokenFails(r) PROVE LightsInv'
  BY <1>9, <1>r, Moves DEF TokenFails, Prepared, progress, access_, lights
<1>10. ASSUME NEW r \in tokenNet, TokenMissing(r) PROVE LightsInv'
  BY <1>10, <1>r, Moves DEF TokenMissing, Prepared, progress, access_, lights
<1>s. \A r \in tokenNet : r.s \in Sessions
  BY DEF TypeOK, TokensOK
<1>11. ASSUME NEW r \in tokenNet, GeneralReply(r) PROVE LightsInv'
  <2>1. run'["queue"].at = "again" /\ \A u \in Threads \ {"queue"} : run'[u] = run[u]
    BY <1>11, <1>s, <1>p DEF GeneralReply, Labels
  <2> QED
    BY <1>11, <1>r, <2>1, Moves DEF GeneralReply, Prepared, progress
<1>12. ASSUME NEW r \in tokenNet, PrivateReply(r) PROVE LightsInv'
  <2>1. private'.kind = "private"
    BY <1>12 DEF PrivateReply, Token
  <2>2. run'["queue"].at \in {"authorize", "idle"} /\ \A u \in Threads \ {"queue"} : run'[u] = run[u]
    BY <1>12, <1>s, <1>p DEF PrivateReply, At, Labels
  <2>3. \A u \in Threads : Prepared(u)'
    BY <1>12, <2>1, <2>2 DEF PrivateReply, LightsInv, Prepared, lights
  <2> QED
    BY <1>12, <2>3 DEF PrivateReply, LightsInv, lights, progress
<1>13. ASSUME NEW s \in Sessions, TaskReply(s) PROVE LightsInv'
  BY <1>13, <1>r, Moves DEF TaskReply, Prepared, progress, access_, lights
<1>14. CASE Expire
  <2>1. UNCHANGED <<lights, progress, run>> /\ private'.kind = private.kind
    BY <1>14, ExpireType
  <2> QED
    BY <1>r, <2>1, Moves DEF Prepared, progress, lights
<1> QED
  BY <1>1, <1>2, <1>3, <1>4, <1>5, <1>6, <1>7, <1>8, <1>9, <1>10, <1>11, <1>12, <1>13, <1>14 DEF Reply

\* In every reachable state each light is behind its part of the request.
THEOREM LightsInvariant == Spec => []LightsInv
<1>1. Init => LightsInv
  <2> SUFFICES ASSUME Init PROVE LightsInv
    OBVIOUS
  <2>1. \A t \in Threads : Prepared(t)
    BY DEF Init, Prepared, Idle
  <2>2. \A s \in Sessions : ~(executed[s] > 0)
    <3>1. executed = NoneOf
      BY DEF Init
    <3>2. \A s \in Sessions : NoneOf[s] = 0
      BY DEF NoneOf
    <3> QED
      BY <3>1, <3>2
  <2> QED
    BY <2>1, <2>2 DEF Init, LightsInv
<1>2. TypeOK /\ TypeOK' /\ LightsInv /\ [Next]_vars => LightsInv'
  <2> SUFFICES ASSUME TypeOK, TypeOK', LightsInv, [Next]_vars PROVE LightsInv'
    OBVIOUS
  <2>1. CASE UNCHANGED vars
    BY <2>1 DEF vars, LightsInv, Prepared, lights, progress, access_
  <2>2. ASSUME NEW t \in Threads, NEW s \in Sessions, Start(t, s) PROVE LightsInv'
    <3>1. run'[t].at = "ready" /\ \A u \in Threads \ {t} : run'[u] = run[u]
      BY <2>2 DEF Start, TypeOK, RunOK
    <3> QED
      BY <2>2, <3>1, Moves DEF Start, Prepared, access_
  <2>3. CASE Relaunch
    <3>1. \A t \in Threads : Prepared(t)'
      BY <2>3 DEF Relaunch, Prepared, Idle
    <3>2. \A s \in Sessions : ~(executed'[s] > 0)
      <4>1. executed' = NoneOf
        BY <2>3 DEF Relaunch
      <4>2. \A s \in Sessions : NoneOf[s] = 0
        BY DEF NoneOf
      <4> QED
        BY <4>1, <4>2
    <3>3. crypto' = {} /\ access' = {}
      BY <2>3 DEF Relaunch
    <3> QED
      BY <3>1, <3>2, <3>3 DEF LightsInv
  <2>4. CASE Main
    BY <2>4, SessionLights DEF Main, Threads
  <2>5. CASE Queue
    BY <2>5, SessionLights, OtherLights DEF Queue, Threads
  <2> QED
    BY <2>1, <2>2, <2>3, <2>4, <2>5, OtherLights DEF Next
<1> QED
  BY <1>1, <1>2, TypeCorrect, PTL DEF Spec

\* No task is started for a request that is not both signed and authorised: SentComplete
\* in every reachable state, whatever the sessions, the outcomes and the bounds.
THEOREM OnlyComplete == Spec => []SentComplete
<1>1. LightsInv => SentComplete
  BY DEF LightsInv, SentComplete
<1> QED
  BY <1>1, LightsInvariant, PTL
-----------------------------------------------------------------------------
\* What a step leaves of the session s when neither its threads nor its records move.
Apart(s) ==
    /\ \A t \in Threads : In(t, s) \/ In(t, s)' =>
           run'[t] = run[t] /\ ready' = ready /\ (CalledBack(t)' <=> CalledBack(t))
    /\ Waiting(s)' <=> Waiting(s)
    /\ Asked(s)' = Asked(s)
    /\ s \in crypto' <=> s \in crypto
    /\ s \in access' <=> s \in access
    /\ s \in started' <=> s \in started
    /\ s \in alive' => s \in alive
    /\ s \in callbacks' \cup calling' => s \in callbacks \cup calling
    /\ executed'[s] = executed[s] /\ flying'[s] = flying[s] /\ completed'[s] = completed[s]

\* Such a step leaves the session on its one way to each light.
LEMMA ApartKeeps ==
    ASSUME NEW s \in Sessions, Once(s), Apart(s)
    PROVE  Once(s)'
<1>1. \A t \in Threads : (In(t, s)' <=> In(t, s)) /\ (In(t, s) => run'[t] = run[t])
  BY DEF Apart, In
<1>2. "main" \in Threads /\ "queue" \in Threads
  BY DEF Threads
<1>3. ~(In("main", s) /\ In("queue", s))'
  BY <1>1, <1>2 DEF Once
<1>4. \A t \in Threads : In(t, s) =>
          /\ ready' = ready /\ (CalledBack(t)' <=> CalledBack(t))
          /\ Unsigned(t)' <=> Unsigned(t)
          /\ Unauthorised(t)' <=> Unauthorised(t)
          /\ run'[t].at = run[t].at
  BY <1>1 DEF Apart, Unsigned, Unauthorised
<1>5. SignedOnce(s)'
  BY <1>1, <1>4 DEF Once, SignedOnce, Apart
<1>6. AuthorisedOnce(s)'
  BY <1>1, <1>4 DEF Once, AuthorisedOnce, Apart
<1>7. TestedOnce(s)'
  BY <1>1, <1>4 DEF Once, TestedOnce, Apart
<1>8. AnsweredOnce(s)'
  BY <1>1, <1>4 DEF Once, AnsweredOnce, Apart
<1>9. (s \notin started => Untouched(s))'
  BY <1>1 DEF Once, Untouched, Apart
<1> QED
  BY <1>3, <1>5, <1>6, <1>7, <1>8, <1>9 DEF Once

\* Where a thread is after it goes on in its session, and after it leaves it.
LEMMA GotoIs ==
    ASSUME RunOK, NEW t \in Threads, NEW label \in Labels, Goto(t, label)
    PROVE  /\ run'[t].at = label /\ run'[t].s = run[t].s
           /\ \A u \in Threads \ {t} : run'[u] = run[u]
BY DEF Goto, RunOK

LEMMA FinishIs ==
    ASSUME RunOK, NEW t \in Threads, Finish(t)
    PROVE  /\ run'[t].at = "idle"
           /\ \A u \in Threads \ {t} : run'[u] = run[u]
BY DEF Finish, Idle, RunOK

\* A thread that takes a step in a session is alone there, and stays alone.
LEMMA Alone ==
    ASSUME TypeOK, NEW t \in Threads, NEW s \in Sessions, In(t, s), Once(s),
           \A u \in Threads \ {t} : run'[u] = run[u]
    PROVE  \A u \in Threads \ {t} : ~In(u, s) /\ ~In(u, s)'
<1>1. \A u \in Threads \ {t} : ~In(u, s)
  BY DEF Once, Threads
<1> QED
  BY <1>1 DEF In

\* Once(s) with the one thread that may be in the session.
OnceBy(t, s) ==
    /\ Waiting(s) => /\ s \notin crypto
                     /\ In(t, s) => ~ready /\ ~Unsigned(t) /\ run[t].at # "cryptoTest"
    /\ In(t, s) /\ Unsigned(t) => s \notin crypto
    /\ In(t, s) /\ run[t].at = "add" => ~ready
    /\ s \in alive => s \in crypto \/ Waiting(s) \/ (In(t, s) /\ Unsigned(t))
    /\ In(t, s) /\ ~CalledBack(t) => Asked(s) = {}
    /\ In(t, s) /\ Unauthorised(t) => s \notin access
    /\ \A r, q \in Asked(s) : r = q
    /\ Asked(s) # {} => s \notin access
    /\ executed[s] <= 1
    /\ executed[s] > 0 /\ In(t, s) => run[t].at \notin {"cryptoTest", "accessTest"}
    /\ \/ completed[s] + flying[s] = executed[s]
       \/ /\ completed[s] = 1 /\ flying[s] = 0
          /\ s \notin access /\ Asked(s) = {}
          /\ In(t, s) => ~Unauthorised(t)
    /\ s \in started

LEMMA OnlyThread ==
    ASSUME NEW t \in Threads, NEW s \in Sessions,
           \A u \in Threads \ {t} : ~In(u, s)', OnceBy(t, s)'
    PROVE  Once(s)'
<1>1. ~(In("main", s) /\ In("queue", s))'
  BY DEF Threads
<1>2. SignedOnce(s)'
  BY DEF SignedOnce, OnceBy
<1>3. AuthorisedOnce(s)'
  BY DEF AuthorisedOnce, OnceBy
<1>4. TestedOnce(s)'
  BY DEF TestedOnce, OnceBy
<1>5. AnsweredOnce(s)'
  BY DEF AnsweredOnce, OnceBy
<1> QED
  BY <1>1, <1>2, <1>3, <1>4, <1>5 DEF Once, OnceBy

LEMMA ThreadOnce ==
    ASSUME NEW t \in Threads, NEW s \in Sessions, Once(s), In(t, s)
    PROVE  OnceBy(t, s)
<1>1. \A u \in Threads \ {t} : ~In(u, s)
  BY DEF Once, Threads
<1>2. s \in started
  BY DEF Once, Untouched
<1> QED
  BY <1>1, <1>2 DEF Once, OnceBy, SignedOnce, AuthorisedOnce, TestedOnce, AnsweredOnce

\* A token is asked for by one session.
LEMMA AskOne ==
    ASSUME NEW s \in Sessions, AskToken(s)
    PROVE  /\ \A x \in Sessions \ {s} : Asked(x)' = Asked(x)
           /\ Asked(s) = {} => \A r, q \in Asked(s)' : r = q
<1> DEFINE r == [scope |-> IF general.valid THEN "private" ELSE "general", s |-> s, n |-> tokens]
<1>1. tokenNet' = tokenNet \cup {r} /\ r.s = s
  BY DEF AskToken
<1> HIDE DEF r
<1>2. \A x \in Sessions \ {s} : Asked(x)' = Asked(x)
  BY <1>1 DEF Asked
<1>3. Asked(s)' = Asked(s) \cup {r}
  BY <1>1 DEF Asked
<1> QED
  BY <1>2, <1>3


\* What every step of a thread in its session does, and does not.
LEMMA SessionStep ==
    ASSUME TypeOK, NEW t \in Threads, Session(t) \/ Complete(t)
    PROVE  /\ run[t].s \in Sessions /\ In(t, run[t].s)
           /\ run'[t].s = run[t].s \/ run'[t].at = "idle"
           /\ \A u \in Threads \ {t} : run'[u] = run[u]
           /\ run'["queue"].at = "loop" <=> run["queue"].at = "loop"
           /\ UNCHANGED <<ready, storedKey, calling, registration, started, alive, completed, crossed>>
           /\ \A u \in Threads : CalledBack(u)' <=> CalledBack(u)
<1>r. RunOK
  BY DEF TypeOK
<1>1. run[t].at \notin Outside
  BY DEF Outside, At, Session, Complete, Sign, CryptoLight, CryptoTest, Authorize, AccessLight, AccessTest,
         TestReady, AddCallback, TestToken, UpdateToken
<1>2. run[t].s \in Sessions /\ In(t, run[t].s)
  BY <1>r, <1>1 DEF RunOK, Outside, In
<1>3. /\ (run'[t].s = run[t].s /\ run'[t].at # "loop") \/ run'[t].at = "idle"
      /\ \A u \in Threads \ {t} : run'[u] = run[u]
  <2>1. CASE \E label \in Labels \ {"loop"} : Goto(t, label)
    BY <1>r, <2>1, GotoIs
  <2>2. CASE Finish(t)
    BY <1>r, <2>2, FinishIs
  <2> QED
    BY <2>1, <2>2 DEF Labels, Session, Complete, Sign, CryptoLight, CryptoTest, Authorize, AccessLight, AccessTest,
         TestReady, AddCallback, TestToken, UpdateToken
<1>4. run'["queue"].at = "loop" <=> run["queue"].at = "loop"
  BY <1>1, <1>3 DEF Outside, Threads
<1>5. UNCHANGED <<ready, storedKey, calling, registration, started, alive, completed, crossed>>
  BY DEF keys, progress, world, Session, Complete, Sign, CryptoLight, CryptoTest, Authorize, AccessLight, AccessTest,
         TestReady, AddCallback, TestToken, UpdateToken
<1>6. \A u \in Threads : CalledBack(u)' <=> CalledBack(u)
  BY <1>5 DEF CalledBack, Announcing
<1> QED
  BY <1>2, <1>3, <1>4, <1>5, <1>6

\* The steps of a thread in its session leave the other sessions alone.
LEMMA OthersApart ==
    ASSUME TypeOK, NEW t \in Threads, NEW s \in Sessions, s # run[t].s,
           Session(t) \/ Complete(t)
    PROVE  Apart(s)
<1>r. ProgressOK
  BY DEF TypeOK
<1>s. run[t].s \in Sessions
  BY SessionStep
<1>1. executed'[s] = executed[s] /\ flying'[s] = flying[s]
  BY <1>r, <1>s DEF progress, TestAndExecute, ProgressOK,
         Session, Complete, Sign, CryptoLight, CryptoTest, Authorize, AccessLight, AccessTest,
         TestReady, AddCallback, TestToken, UpdateToken
<1>2. (s \in crypto' <=> s \in crypto) /\ (s \in access' <=> s \in access)
  BY DEF lights, Session, Complete, Sign, CryptoLight, CryptoTest, Authorize, AccessLight, AccessTest,
         TestReady, AddCallback, TestToken, UpdateToken
<1>3. Asked(s)' = Asked(s)
  <2>1. CASE tokenNet' = tokenNet
    BY <2>1 DEF Asked
  <2>2. CASE AskToken(run[t].s)
    BY <1>s, <2>2, AskOne
  <2> QED
    BY <2>1, <2>2 DEF access_, Session, Complete, Sign, CryptoLight, CryptoTest, Authorize, AccessLight, AccessTest,
         TestReady, AddCallback, TestToken, UpdateToken
<1>4. s \in callbacks' <=> s \in callbacks
  BY DEF keys, Session, Complete, Sign, CryptoLight, CryptoTest, Authorize, AccessLight, AccessTest,
         TestReady, AddCallback, TestToken, UpdateToken
<1>5. Waiting(s)' <=> Waiting(s)
  BY <1>4, SessionStep DEF Waiting
<1>6. \A u \in Threads : In(u, s) \/ In(u, s)' => run'[u] = run[u]
  BY SessionStep DEF In, Outside
<1> QED
  BY <1>1, <1>2, <1>3, <1>4, <1>5, <1>6, SessionStep DEF Apart

\* A step of a thread in its session leaves that session on its one way to each light.
LEMMA SessionOnce ==
    ASSUME TypeOK, LightsInv, CallsInv, NEW t \in Threads, NEW s \in Sessions,
           s = run[t].s, Once(s), Session(t) \/ Complete(t)
    PROVE  Once(s)'
<1>r. RunOK /\ ProgressOK
  BY DEF TypeOK
<1>i. In(t, s)
  BY SessionStep
<1>b. OnceBy(t, s)
  BY <1>i, ThreadOnce
<1>e. /\ executed[s] \in Nat /\ flying[s] \in Nat /\ completed[s] \in Nat
      /\ executed[s] > 0 => s \in crypto /\ s \in access
  BY <1>r DEF ProgressOK, LightsInv
<1>q. SUFFICES OnceBy(t, s)'
  BY <1>i, SessionStep, Alone, OnlyThread
<1>w. /\ UNCHANGED <<ready, storedKey, calling, started, alive, completed>>
      /\ run'["queue"].at = "loop" <=> run["queue"].at = "loop"
      /\ CalledBack(t)' <=> CalledBack(t)
  BY SessionStep
<1>x. TestAndExecute(s) => \/ /\ s \in crypto /\ s \in access
                              /\ executed'[s] = executed[s] + 1 /\ flying'[s] = flying[s] + 1
                           \/ /\ ~(s \in crypto /\ s \in access)
                              /\ executed'[s] = executed[s] /\ flying'[s] = flying[s]
  BY <1>r DEF TestAndExecute, ProgressOK
<1>1. CASE Sign(t)
  <2>1. run[t].at = "sign" /\ run'[t].s = s /\ run'[t].at = "cryptoLight"
    BY <1>1, <1>r, GotoIs DEF Sign, At, Labels
  <2> QED
    BY <1>1, <1>b, <1>e, <1>w, <2>1 DEF Sign, OnceBy, In, Waiting, Unsigned, Unauthorised, Asked,
       Outside, keys, access_, lights, progress
<1>2. CASE CryptoLight(t)
  <2>1. run[t].at = "cryptoLight" /\ run'[t].s = s /\ run'[t].at = "cryptoTest"
    BY <1>2, <1>r, GotoIs DEF CryptoLight, At, Labels
  <2> QED
    BY <1>2, <1>b, <1>e, <1>w, <2>1 DEF CryptoLight, OnceBy, In, Waiting, Unsigned, Unauthorised, Asked,
       Outside, keys, access_, lights, progress
<1>3. CASE CryptoTest(t)
  <2>1. run[t].at = "cryptoTest" /\ run'[t].s = s /\ run'[t].at = (IF CalledBack(t) THEN "calling" ELSE "token")
    BY <1>3, <1>r, GotoIs DEF CryptoTest, At, Labels, CalledBack
  <2> QED
    BY <1>3, <1>b, <1>e, <1>x, <1>w, <2>1 DEF CryptoTest, OnceBy, In, Waiting, Unsigned, Unauthorised, Asked,
       Outside, keys, access_, lights, progress
<1>4. CASE Authorize(t)
  <2>1. run[t].at = "authorize" /\ run'[t].s = s /\ run'[t].at = "accessLight"
    BY <1>4, <1>r, GotoIs DEF Authorize, At, Labels
  <2> QED
    BY <1>4, <1>b, <1>e, <1>w, <2>1 DEF Authorize, OnceBy, In, Waiting, Unsigned, Unauthorised, Asked,
       Outside, keys, access_, lights, progress
<1>5. CASE AccessLight(t)
  <2>1. run[t].at = "accessLight" /\ run'[t].s = s /\ run'[t].at = "accessTest"
    BY <1>5, <1>r, GotoIs DEF AccessLight, At, Labels
  <2>2. ~CalledBack(t)
    BY <2>1 DEF CalledBack, CallsInv
  <2> QED
    BY <1>5, <1>b, <1>e, <1>w, <2>1, <2>2 DEF AccessLight, OnceBy, In, Waiting, Unsigned, Unauthorised, Asked,
       Outside, keys, access_, lights, progress
<1>6. CASE AccessTest(t)
  <2>1. run[t].at = "accessTest" /\ run'[t].at = "idle"
    BY <1>6, <1>r, FinishIs DEF AccessTest, At
  <2> QED
    BY <1>6, <1>b, <1>e, <1>x, <1>w, <2>1 DEF AccessTest, OnceBy, In, Waiting, Unsigned, Unauthorised,
       Asked, Outside, keys, access_, lights, progress
<1>7. CASE TestReady(t)
  <2>1. run[t].at = "ready" /\ run'[t].s = s /\ run'[t].at = (IF ready THEN "sign" ELSE "add")
    BY <1>7, <1>r, GotoIs DEF TestReady, At, Labels
  <2> QED
    BY <1>7, <1>b, <1>e, <1>w, <2>1 DEF TestReady, OnceBy, In, Waiting, Unsigned, Unauthorised, Asked,
       Outside, keys, access_, lights, progress
<1>8. CASE AddCallback(t)
  <2>1. run[t].at = "add" /\ run'[t].s = s /\ run'[t].at = "token"
    BY <1>8, <1>r, GotoIs DEF AddCallback, At, Labels
  <2> QED
    BY <1>8, <1>b, <1>e, <1>w, <2>1 DEF AddCallback, OnceBy, In, Waiting, Unsigned, Unauthorised, Asked,
       Outside, keys, access_, lights, progress
<1>9. CASE TestToken(t)
  <2>1. run[t].at = "token" /\ run'[t].s = s /\ run'[t].at \in {"authorize", "update"}
    BY <1>9, <1>r, GotoIs DEF TestToken, At, Labels
  <2> QED
    BY <1>9, <1>b, <1>e, <1>w, <2>1 DEF TestToken, OnceBy, In, Waiting, Unsigned, Unauthorised, Asked,
       Outside, keys, access_, lights, progress
<1>10. CASE UpdateToken(t)
  <2>1. run[t].at = "update" /\ run'[t].at = "idle"
    BY <1>10, <1>r, FinishIs DEF UpdateToken, At
  <2>2. ~CalledBack(t)
    BY <2>1 DEF CalledBack, CallsInv
  <2>3. Asked(s) = {} /\ s \notin access
    BY <1>i, <1>b, <2>1, <2>2 DEF OnceBy, Unauthorised
  <2>4. \A r, q \in Asked(s)' : r = q
    BY <1>10, <2>3, AskOne DEF UpdateToken
  <2> QED
    BY <1>10, <1>b, <1>e, <1>w, <1>i, <2>1, <2>2, <2>3, <2>4 DEF UpdateToken, OnceBy, In, Waiting, Unsigned,
       Unauthorised, Outside, keys, lights, progress
<1> QED
  BY <1>1, <1>2, <1>3, <1>4, <1>5, <1>6, <1>7, <1>8, <1>9, <1>10 DEF Session, Complete

\* A step of a thread in its session does not move the calls of the queue.
LEMMA SessionCalls ==
    ASSUME TypeOK, CallsInv, NEW t \in Threads, Session(t) \/ Complete(t)
    PROVE  CallsInv'
<1>r. RunOK
  BY DEF TypeOK
<1>w. /\ UNCHANGED <<ready, storedKey, calling, registration, crossed>>
      /\ \A u \in Threads \ {t} : run'[u] = run[u]
  BY SessionStep
<1>1. CASE t # "queue"
  <2>1. run'["queue"] = run["queue"]
    BY <1>w, <1>1 DEF Threads
  <2> QED
    BY <1>w, <2>1 DEF CallsInv, Announcing
<1>2. CASE t = "queue" /\ Announcing
  <2>1. run["queue"].at \in {"sign", "cryptoLight", "cryptoTest"}
    BY <1>2, SessionStep DEF CallsInv, In, Outside
  <2>2. run'["queue"].at \in {"cryptoLight", "cryptoTest", "calling"}
    <3>1. CASE Sign(t)
      BY <1>r, <1>2, <3>1, GotoIs DEF Sign, Labels
    <3>2. CASE CryptoLight(t)
      BY <1>r, <1>2, <3>2, GotoIs DEF CryptoLight, Labels
    <3>3. CASE CryptoTest(t)
      BY <1>r, <1>2, <3>3, GotoIs DEF CryptoTest, CalledBack, Labels
    <3> QED
      BY <1>2, <2>1, <3>1, <3>2, <3>3 DEF Session, Complete, Authorize, AccessLight, AccessTest,
         TestReady, AddCallback, TestToken, UpdateToken, At
  <2> QED
    BY <1>w, <1>2, <2>1, <2>2 DEF CallsInv, Announcing
<1>3. CASE t = "queue" /\ ~Announcing
  <2>1. run'["queue"].at \notin {"loop", "calling", "archive"}
    <3>1. CASE \E label \in Labels \ {"loop", "calling", "archive"} : Goto(t, label)
      BY <1>r, <1>3, <3>1, GotoIs
    <3>2. CASE Finish(t)
      BY <1>r, <1>3, <3>2, FinishIs
    <3> QED
      BY <1>3, <3>1, <3>2 DEF CalledBack, Labels, Session, Complete, Sign, CryptoLight, CryptoTest, Authorize,
         AccessLight, AccessTest, TestReady, AddCallback, TestToken, UpdateToken
  <2> QED
    BY <1>w, <1>3, <2>1 DEF CallsInv, Announcing
<1> QED
  BY <1>1, <1>2, <1>3

\* So a step of a thread in its session keeps the pipeline in order.
LEMMA SessionKeeps ==
    ASSUME TypeOK, LightsInv, OnceInv, NEW t \in Threads, Session(t) \/ Complete(t)
    PROVE  OnceInv'
<1>1. CallsInv'
  BY SessionCalls DEF OnceInv
<1>2. crossed' = crossed
  BY SessionStep
<1>3. ASSUME NEW s \in Sessions \ {crossed} PROVE Once(s)'
  <2>1. CASE s = run[t].s
    BY <2>1, SessionOnce DEF OnceInv
  <2>2. CASE s # run[t].s
    BY <2>2, OthersApart, ApartKeeps DEF OnceInv
  <2> QED
    BY <2>1, <2>2
<1> QED
  BY <1>1, <1>2, <1>3 DEF OnceInv

\* A session in which nothing has happened yet is on its way.
LEMMA UntouchedOnce ==
    ASSUME NEW s \in Sessions, Untouched(s)', s \notin alive'
    PROVE  Once(s)'
BY DEF Untouched, Once, Waiting, SignedOnce, AuthorisedOnce, TestedOnce, AnsweredOnce, Threads

\* A request begins in one place.
LEMMA StartKeeps ==
    ASSUME TypeOK, OnceInv, NEW t \in Threads, NEW s \in Sessions, Start(t, s)
    PROVE  OnceInv'
<1>r. RunOK /\ ProgressOK
  BY DEF TypeOK
<1>1. /\ run[t].at = "idle" /\ run'[t].at = "ready" /\ run'[t].s = s
      /\ \A u \in Threads \ {t} : run'[u] = run[u]
  BY <1>r DEF Start, At, RunOK
<1>w. UNCHANGED <<ready, storedKey, calling, callbacks, crossed, tokenNet, crypto, access,
                  executed, flying, completed>>
  BY DEF Start, access_, lights, world
<1>2. CallsInv'
  <2>1. /\ run["queue"].at \in {"loop", "calling", "archive", "sign", "cryptoLight", "cryptoTest"}
            => run'["queue"] = run["queue"]
        /\ run'["queue"].at \in {"loop", "calling", "archive"} => run'["queue"] = run["queue"]
    BY <1>1 DEF Threads
  <2>2. /\ registration' = "ended" <=> registration = "ended"
    BY DEF Start
  <2> QED
    BY <1>w, <2>1, <2>2 DEF OnceInv, CallsInv, Announcing
<1>3. \A u \in Threads : CalledBack(u)' <=> CalledBack(u)
  BY <1>w DEF CalledBack, Announcing
<1>4. run'["queue"].at = "loop" <=> run["queue"].at = "loop"
  BY <1>1 DEF Threads
<1>5. ASSUME NEW x \in Sessions \ {crossed}, x # s PROVE Once(x)'
  <2>1. \A u \in Threads : In(u, x) \/ In(u, x)' => run'[u] = run[u]
    BY <1>1, <1>5 DEF In, Outside
  <2>2. (x \in started' <=> x \in started) /\ (x \in alive' <=> x \in alive)
    BY <1>5 DEF Start
  <2>3. (Waiting(x)' <=> Waiting(x)) /\ Asked(x)' = Asked(x)
    BY <1>w, <1>4 DEF Waiting, Asked
  <2>4. Apart(x)
    BY <1>w, <1>3, <2>1, <2>2, <2>3 DEF Apart
  <2> QED
    BY <2>4, ApartKeeps DEF OnceInv
<1>6. ASSUME s # crossed PROVE Once(s)'
  <2>1. Untouched(s)
    BY <1>6 DEF OnceInv, Once, Start
  <2>2. \A u \in Threads \ {t} : ~In(u, s)'
    BY <1>1, <2>1 DEF Untouched, In
  <2>3. OnceBy(t, s)'
    <3>1. s \notin callbacks /\ s \notin calling /\ ~Waiting(s)'
      BY <1>w, <2>1 DEF Untouched, Waiting
    <3>2. s \in started'
      BY DEF Start
    <3> QED
      BY <1>1, <1>w, <2>1, <3>1, <3>2 DEF Untouched, OnceBy, Asked, In, Unsigned, Outside
  <2> QED
    BY <2>2, <2>3, OnlyThread
<1> QED
  BY <1>2, <1>5, <1>6, <1>w DEF OnceInv

\* A step of the queue outside every session leaves them all alone, when it calls nobody.
LEMMA OutsideApart ==
    ASSUME NEW s \in Sessions, run["queue"].at \in Outside, run'["queue"].at \in Outside,
           run'["main"] = run["main"],
           UNCHANGED <<started, alive, crypto, access, executed, flying, completed>>,
           s \in callbacks' \cup calling' => s \in callbacks \cup calling,
           In("main", s) => ready' = ready,
           Waiting(s)' <=> Waiting(s), Asked(s)' = Asked(s)
    PROVE  Apart(s)
<1>1. \A t \in Threads : In(t, s) \/ In(t, s)' => t = "main" /\ In("main", s)
  BY DEF In, Threads
<1>2. CalledBack("main")' <=> CalledBack("main")
  BY DEF CalledBack
<1> QED
  BY <1>1, <1>2 DEF Apart

\* The steps of the queue between two callbacks.
LEMMA CallsKeep ==
    ASSUME TypeOK, OnceInv, BeginCalls \/ NextCall \/ EndCalls \/ Archive
    PROVE  OnceInv'
<1>r. RunOK /\ "queue" \in Threads /\ "main" \in Threads
  BY DEF TypeOK, Threads
<1>c. CallsInv
  BY DEF OnceInv
<1>w. UNCHANGED <<ready, registration, crossed, callbacks, tokenNet, started, alive, crypto, access,
                  executed, flying, completed>>
  BY DEF BeginCalls, NextCall, EndCalls, Archive, keys, access_, lights, progress, world
<1>a. \A s \in Sessions : Asked(s)' = Asked(s)
  BY <1>w DEF Asked
<1>1. CASE BeginCalls
  <2>1. /\ run["queue"].at = "loop" /\ run'["main"] = run["main"]
        /\ run'["queue"].at = (IF callbacks = {} THEN "archive" ELSE "calling")
    BY <1>1, <1>r, GotoIs DEF BeginCalls, At, Labels, ToCall, Threads
  <2>2. calling = {} /\ calling' = callbacks /\ storedKey' = storedKey
    BY <1>1, <1>c, <2>1 DEF BeginCalls, ToCall, CallsInv
  <2>3. CallsInv'
    BY <1>c, <1>w, <2>1, <2>2 DEF CallsInv, Announcing
  <2>4. ASSUME NEW s \in Sessions PROVE Apart(s)
    <3>1. Waiting(s)' <=> Waiting(s)
      BY <1>c, <1>w, <2>1, <2>2 DEF Waiting, CallsInv, Announcing
    <3> QED
      BY <1>a, <1>w, <2>1, <2>2, <3>1, OutsideApart DEF Outside
  <2> QED
    BY <1>w, <2>3, <2>4, ApartKeeps DEF OnceInv
<1>2. CASE EndCalls
  <2>1. /\ run["queue"].at = "calling" /\ run'["main"] = run["main"] /\ run'["queue"].at = "archive"
    BY <1>2, <1>r, GotoIs DEF EndCalls, At, Labels, Threads
  <2>2. calling = {} /\ calling' = {} /\ storedKey' = storedKey
    BY <1>2 DEF EndCalls, keys
  <2>3. CallsInv'
    BY <1>c, <1>w, <2>1, <2>2 DEF CallsInv, Announcing
  <2>4. ASSUME NEW s \in Sessions PROVE Apart(s)
    <3>1. Waiting(s)' <=> Waiting(s)
      BY <1>w, <2>1, <2>2 DEF Waiting
    <3> QED
      BY <1>a, <1>w, <2>1, <2>2, <3>1, OutsideApart DEF Outside
  <2> QED
    BY <1>w, <2>3, <2>4, ApartKeeps DEF OnceInv
<1>3. CASE Archive
  <2>1. /\ run["queue"].at = "archive" /\ run'["main"] = run["main"] /\ run'["queue"].at = "idle"
    BY <1>3, <1>r, FinishIs DEF Archive, At, Threads
  <2>2. calling = {} /\ calling' = {} /\ storedKey' = TRUE
    BY <1>3, <1>c, <2>1 DEF Archive, CallsInv
  <2>3. CallsInv'
    BY <1>c, <1>w, <2>1, <2>2 DEF CallsInv, Announcing
  <2>4. ASSUME NEW s \in Sessions PROVE Apart(s)
    <3>1. Waiting(s)' <=> Waiting(s)
      BY <1>w, <2>1, <2>2 DEF Waiting
    <3> QED
      BY <1>a, <1>w, <2>1, <2>2, <3>1, OutsideApart DEF Outside
  <2> QED
    BY <1>w, <2>3, <2>4, ApartKeeps DEF OnceInv
<1>4. CASE NextCall
  <2>1. PICK s \in calling :
            /\ calling' = calling \ {s}
            /\ run' = IF s \in alive THEN [run EXCEPT !["queue"] = [at |-> "sign", s |-> s]] ELSE run
    BY <1>4 DEF NextCall
  <2>2. s \in Sessions /\ run["queue"].at = "calling" /\ storedKey' = storedKey
    BY <1>4 DEF TypeOK, NextCall, At
  <2>3. /\ run'["main"] = run["main"]
        /\ run'["queue"] = IF s \in alive THEN [at |-> "sign", s |-> s] ELSE run["queue"]
    BY <1>r, <2>1 DEF RunOK
  <2>4. CallsInv'
    BY <1>c, <1>w, <2>1, <2>2, <2>3 DEF CallsInv, Announcing
  <2>5. \A x \in Sessions \ {s} : Waiting(x)' <=> Waiting(x)
    BY <1>w, <2>1, <2>2, <2>3 DEF Waiting
  <2>6. \A t \in Threads : CalledBack(t)' <=> CalledBack(t)
    BY <1>w, <2>2 DEF CalledBack, Announcing
  <2>7. ASSUME NEW x \in Sessions \ {s} PROVE Apart(x)
    <3>1. \A t \in Threads : In(t, x) \/ In(t, x)' => run'[t] = run[t]
      BY <2>2, <2>3 DEF In, Outside, Threads
    <3> QED
      BY <1>a, <1>w, <2>1, <2>5, <2>6, <3>1 DEF Apart
  <2>8. ASSUME s # crossed PROVE Once(s)'
    <3>1. Once(s) /\ Waiting(s) /\ ready /\ Announcing
      BY <1>c, <2>2, <2>8 DEF OnceInv, Waiting, CallsInv, Announcing
    <3>2. \A t \in Threads : ~In(t, s)
      BY <3>1 DEF Once, SignedOnce
    <3>3. \A t \in Threads \ {"queue"} : ~In(t, s)'
      BY <2>3, <3>2 DEF In, Threads
    <3>4. s \notin crypto /\ ~Waiting(s)' /\ s \in started
      BY <1>w, <2>1, <2>2, <2>3, <3>1 DEF Once, SignedOnce, Waiting, Untouched
    <3>5. In("queue", s)' => s \in alive /\ Unsigned("queue")' /\ run'["queue"].at = "sign" /\ CalledBack("queue")'
      BY <1>w, <2>2, <2>3, <3>1 DEF In, Outside, Unsigned, CalledBack, Announcing
    <3>6. s \in alive => In("queue", s)' /\ Unsigned("queue")'
      BY <2>3 DEF In, Outside, Unsigned
    <3>7. OnceBy("queue", s)'
      BY <1>a, <1>w, <2>2, <3>1, <3>2, <3>4, <3>5, <3>6
      DEF OnceBy, Once, SignedOnce, AuthorisedOnce, TestedOnce, AnsweredOnce, Unauthorised
    <3> QED
      BY <1>r, <2>2, <3>3, <3>7, OnlyThread
  <2> QED
    BY <1>w, <2>2, <2>4, <2>7, <2>8, ApartKeeps DEF OnceInv
<1> QED
  BY <1>1, <1>2, <1>3, <1>4

\* The steps that move no session and none of what the pipeline holds for one.
LEMMA NothingMoves ==
    ASSUME OnceInv,
           UNCHANGED <<ready, storedKey, callbacks, calling, crossed, run, started, alive,
                       crypto, access, executed, flying, completed, tokenNet>>,
           registration' = registration \/ (registration' = "ended" /\ registration = "sent")
    PROVE  OnceInv'
<1>1. CallsInv'
  BY DEF OnceInv, CallsInv, Announcing
<1>2. \A s \in Sessions : Apart(s)
  BY DEF Apart, Waiting, Asked, CalledBack, Announcing
<1> QED
  BY <1>1, <1>2, ApartKeeps DEF OnceInv

LEMMA StillKeeps ==
    ASSUME OnceInv,
           \/ RaiseMutated \/ Expire \/ RegistrationFails \/ KeyMissing
           \/ \E r \in tokenNet : TokenMissing(r)
    PROVE  OnceInv'
BY NothingMoves DEF RaiseMutated, Expire, RegistrationFails, KeyMissing, TokenMissing, keys,
   access_, lights, progress, world

\* The device becomes ready while the main thread starts one request at most, and that
\* one alone may miss its call.
LEMMA RegisteredKeeps ==
    ASSUME TypeOK, OnceInv, Registered
    PROVE  OnceInv'
<1>r. RunOK
  BY DEF TypeOK
<1>c. CallsInv
  BY DEF OnceInv
<1>w. UNCHANGED <<callbacks, calling, storedKey, tokenNet, started, alive, crypto, access,
                  executed, flying, completed>>
  BY DEF Registered, access_, lights, progress
<1>1. /\ run["queue"].at = "idle" /\ run'["queue"].at = "loop" /\ run'["main"] = run["main"]
  BY <1>r, GotoIs DEF Registered, At, Labels, Threads
<1>2. /\ ~ready /\ ready' = TRUE /\ ~storedKey /\ crossed = NoSession
      /\ registration' = "ended" /\ crossed' = run["main"].s
  BY <1>c DEF Registered, CallsInv
<1>3. calling = {}
  BY <1>c, <1>2 DEF CallsInv, Announcing
<1>4. CallsInv'
  BY <1>w, <1>1, <1>2, <1>3 DEF CallsInv, Announcing
<1>5. ASSUME NEW s \in Sessions \ {crossed'} PROVE Once(s)'
  <2>1. Once(s)
    BY <1>2, SessionAssumption DEF OnceInv
  <2>2. Waiting(s)' <=> Waiting(s)
    BY <1>w, <1>1, <1>2, <1>3 DEF Waiting
  <2>3. ~In("main", s)
    BY <1>2, <1>5 DEF In
  <2>4. Asked(s)' = Asked(s)
    BY <1>w DEF Asked
  <2>5. Apart(s)
    BY <1>w, <1>1, <2>2, <2>3, <2>4, OutsideApart DEF Outside
  <2> QED
    BY <2>1, <2>5, ApartKeeps
<1> QED
  BY <1>4, <1>5 DEF OnceInv

\* The second token is asked for where the first came in.
LEMMA AskAgainKeeps ==
    ASSUME TypeOK, OnceInv, AskAgain
    PROVE  OnceInv'
<1>r. RunOK /\ "queue" \in Threads
  BY DEF TypeOK, Threads
<1>c. CallsInv
  BY DEF OnceInv
<1>1. /\ run["queue"].at = "again" /\ run'["queue"].at = "idle" /\ run'["main"] = run["main"]
  BY <1>r, FinishIs DEF AskAgain, At, Threads
<1>2. PICK s \in Sessions : s = run["queue"].s /\ In("queue", s)
  BY <1>r, <1>1 DEF RunOK, In, Outside
<1>w. /\ UNCHANGED <<ready, registration, storedKey, crossed, callbacks, calling, started, alive,
                     crypto, access, executed, flying, completed>>
      /\ AskToken(s)
  BY <1>2 DEF AskAgain, keys, lights, progress, world
<1>3. ~Announcing /\ ~Announcing'
  BY <1>c, <1>w, <1>1 DEF CallsInv, Announcing
<1>4. CallsInv'
  BY <1>c, <1>w, <1>1, <1>3 DEF CallsInv, Announcing
<1>5. \A x \in Sessions : Waiting(x)' <=> Waiting(x)
  BY <1>w, <1>1 DEF Waiting
<1>6. \A t \in Threads : ~CalledBack(t) /\ ~CalledBack(t)'
  BY <1>3 DEF CalledBack
<1>7. ASSUME NEW x \in Sessions \ {s} PROVE Apart(x)
  <2>1. Asked(x)' = Asked(x)
    BY <1>w, <1>2, AskOne
  <2>2. \A t \in Threads : In(t, x) \/ In(t, x)' => run'[t] = run[t]
    BY <1>1, <1>2 DEF In, Outside, Threads
  <2> QED
    BY <1>w, <1>5, <1>6, <2>1, <2>2 DEF Apart
<1>8. ASSUME s # crossed PROVE Once(s)'
  <2>1. Once(s) /\ OnceBy("queue", s)
    BY <1>2, <1>8, <1>r, ThreadOnce DEF OnceInv
  <2>2. \A u \in Threads \ {"queue"} : ~In(u, s)'
    BY <1>1, <1>2, <2>1 DEF Once, In, Threads
  <2>3. Asked(s) = {} /\ s \notin access
    BY <1>1, <1>2, <1>6, <1>r, <2>1 DEF OnceBy, Unauthorised
  <2>4. \A r, q \in Asked(s)' : r = q
    BY <1>w, <1>2, <2>3, AskOne
  <2>5. ~In("queue", s)'
    BY <1>1 DEF In, Outside
  <2>6. OnceBy("queue", s)'
    BY <1>w, <1>1, <1>2, <1>5, <1>6, <1>r, <2>1, <2>3, <2>4, <2>5 DEF OnceBy, Unsigned, Unauthorised
  <2> QED
    BY <1>2, <1>r, <2>2, <2>6, OnlyThread
<1> QED
  BY <1>w, <1>4, <1>7, <1>8, <1>2, ApartKeeps DEF OnceInv

\* A reply to s that puts no thread into a session leaves the others alone.
LEMMA ReplyApart ==
    ASSUME NEW r \in tokenNet, NEW s \in Sessions, s # r.s,
           UNCHANGED <<ready, storedKey, callbacks, calling, started, crypto, access, executed, flying>>,
           tokenNet' = tokenNet \ {r},
           completed'[s] = completed[s], s \in alive' => s \in alive,
           run'["main"] = run["main"], run["queue"].at = "idle",
           run'["queue"].at = "idle" \/ run'["queue"].s # s,
           run'["queue"].at # "loop"
    PROVE  Apart(s)
<1>1. Asked(s)' = Asked(s)
  BY DEF Asked
<1>2. Waiting(s)' <=> Waiting(s)
  BY DEF Waiting
<1>3. \A t \in Threads : In(t, s) \/ In(t, s)' => run'[t] = run[t]
  BY DEF In, Outside, Threads
<1>4. \A t \in Threads : CalledBack(t)' <=> CalledBack(t)
  BY DEF CalledBack, Announcing
<1> QED
  BY <1>1, <1>2, <1>3, <1>4 DEF Apart

\* A reply to s finds no thread in s but the one that calls it back, and the way to its
\* token open.
LEMMA ReplyFinds ==
    ASSUME OnceInv, NEW r \in tokenNet, r.s \in Sessions \ {crossed}, run["queue"].at = "idle",
           tokenNet' = tokenNet \ {r}
    PROVE  /\ Once(r.s) /\ ~Announcing /\ r.s \in started
           /\ \A t \in Threads : ~In(t, r.s)
           /\ {q \in tokenNet' : q.s = r.s} = {}
           /\ r.s \notin access
           /\ completed[r.s] + flying[r.s] = executed[r.s]
           /\ Waiting(r.s) => ~ready
           /\ calling = {}
<1> DEFINE s == r.s
<1>1. Once(s) /\ CallsInv
  BY DEF OnceInv
<1>2. ~Announcing /\ calling = {}
  BY <1>1 DEF CallsInv
<1>3. r \in Asked(s)
  BY DEF Asked
<1>4. \A t \in Threads : ~In(t, s)
  BY <1>1, <1>2, <1>3 DEF Once, AuthorisedOnce, CalledBack
<1>5. s \in started
  BY <1>1, <1>3 DEF Once, Untouched
<1>6. s \notin access /\ \A q \in Asked(s) : q = r
  BY <1>1, <1>3 DEF Once, AuthorisedOnce
<1>7. {q \in tokenNet' : q.s = r.s} = {}
  BY <1>6 DEF Asked
<1>8. completed[s] + flying[s] = executed[s]
  BY <1>1, <1>3 DEF Once, AnsweredOnce
<1>9. Waiting(s) => ~ready
  BY <1>2 DEF Waiting
<1> QED
  BY <1>1, <1>2, <1>4, <1>5, <1>6, <1>7, <1>8, <1>9

\* A token's arrival goes on where it was asked for; its loss ends the request.
LEMMA TokenKeeps ==
    ASSUME TypeOK, LightsInv, OnceInv, NEW r \in tokenNet,
           TokenFails(r) \/ GeneralReply(r) \/ PrivateReply(r)
    PROVE  OnceInv'
<1>r. RunOK /\ ProgressOK /\ "queue" \in Threads
  BY DEF TypeOK, Threads
<1>c. CallsInv
  BY DEF OnceInv
<1>s. PICK s \in Sessions : s = r.s
  BY DEF TypeOK, TokensOK
<1>w. /\ UNCHANGED <<ready, registration, storedKey, crossed, callbacks, calling, started,
                     crypto, access, executed, flying>>
      /\ tokenNet' = tokenNet \ {r} /\ run["queue"].at = "idle"
  BY DEF TokenFails, GeneralReply, PrivateReply, At, keys, lights, progress, world
<1>1. /\ run'["main"] = run["main"]
      /\ \/ run' = run
         \/ run'["queue"].at \in {"again", "authorize"} /\ run'["queue"].s = s
  BY <1>r, <1>s DEF TokenFails, GeneralReply, PrivateReply, RunOK, Threads
<1>2. CallsInv'
  BY <1>c, <1>w, <1>1 DEF CallsInv, Announcing
<1>3. /\ alive' \subseteq alive
      /\ \A x \in Sessions \ {s} : completed'[x] = completed[x]
      /\ \/ completed'[s] = completed[s] /\ (s \in alive' <=> s \in alive)
         \/ completed'[s] = completed[s] + 1 /\ run' = run
  BY <1>r, <1>s DEF TokenFails, GeneralReply, PrivateReply, CallCompletion, progress, ProgressOK
<1>4. ASSUME NEW x \in Sessions \ {s} PROVE Apart(x)
  BY <1>s, <1>w, <1>1, <1>3, ReplyApart
<1>5. ASSUME s # crossed PROVE Once(s)'
  <2>1. /\ Once(s) /\ ~Announcing /\ s \in started
        /\ \A t \in Threads : ~In(t, s)
        /\ Asked(s)' = {} /\ s \notin access
        /\ completed[s] + flying[s] = executed[s]
        /\ Waiting(s) => ~ready
    BY <1>s, <1>w, <1>5, ReplyFinds DEF Asked
  <2>2. executed[s] = 0 /\ flying[s] = 0 /\ completed[s] = 0
    BY <1>r, <2>1 DEF LightsInv, ProgressOK
  <2>3. \A u \in Threads \ {"queue"} : ~In(u, s)'
    BY <1>1, <2>1 DEF In, Threads
  <2>4. Waiting(s)' <=> Waiting(s)
    BY <1>w, <1>1 DEF Waiting
  <2>5. /\ Waiting(s) => s \notin crypto
        /\ s \in alive => s \in crypto \/ Waiting(s)
    BY <2>1 DEF Once, SignedOnce
  <2>6. In("queue", s)' => /\ run'["queue"].at \in {"again", "authorize"}
                           /\ completed'[s] = 0
    BY <1>w, <1>1, <1>3, <2>1, <2>2, <1>r DEF In
  <2>7. OnceBy("queue", s)'
    BY <1>w, <1>3, <2>1, <2>2, <2>4, <2>5, <2>6, <1>r
    DEF OnceBy, Unsigned, Unauthorised
  <2> QED
    BY <1>r, <2>3, <2>7, OnlyThread
<1> QED
  BY <1>w, <1>2, <1>4, <1>5, ApartKeeps DEF OnceInv

\* An answer completes the one task there is.
LEMMA TaskKeeps ==
    ASSUME TypeOK, LightsInv, OnceInv, NEW s \in Sessions, TaskReply(s)
    PROVE  OnceInv'
<1>r. RunOK /\ ProgressOK
  BY DEF TypeOK
<1>w. UNCHANGED <<ready, registration, storedKey, crossed, callbacks, calling, run, started,
                  crypto, access, executed, tokenNet>>
  BY DEF TaskReply, keys, lights, world, access_
<1>1. /\ alive' = alive \ {s} /\ flying[s] > 0
      /\ completed'[s] = completed[s] + 1 /\ flying'[s] = flying[s] - 1
      /\ \A x \in Sessions \ {s} : completed'[x] = completed[x] /\ flying'[x] = flying[x]
  BY <1>r DEF TaskReply, CallCompletion, ProgressOK
<1>2. CallsInv'
  BY <1>w DEF OnceInv, CallsInv, Announcing
<1>3. \A x \in Sessions \ {s} : Apart(x)
  BY <1>w, <1>1 DEF Apart, Waiting, Asked, CalledBack, Announcing
<1>4. ASSUME Once(s) PROVE Once(s)'
  <2>1. s \in started
    BY <1>1, <1>4 DEF Once, Untouched
  <2>2. completed[s] + flying[s] = executed[s]
    BY <1>1, <1>4 DEF Once, AnsweredOnce
  <2>3. completed'[s] + flying'[s] = executed'[s]
    BY <1>r, <1>w, <1>1, <2>2 DEF ProgressOK
  <2>4. SignedOnce(s)'
    BY <1>w, <1>1, <1>4 DEF Once, SignedOnce, In, Waiting, Unsigned
  <2>5. AuthorisedOnce(s)'
    BY <1>w, <1>4 DEF Once, AuthorisedOnce, In, Asked, CalledBack, Unauthorised, Announcing
  <2>6. TestedOnce(s)'
    BY <1>w, <1>4 DEF Once, TestedOnce, In
  <2>7. ~(In("main", s) /\ In("queue", s))'
    BY <1>w, <1>4 DEF Once, In
  <2> QED
    BY <1>w, <2>1, <2>3, <2>4, <2>5, <2>6, <2>7 DEF Once, AnsweredOnce
<1> QED
  BY <1>w, <1>2, <1>3, <1>4, ApartKeeps DEF OnceInv

\* A launch begins with nothing done for any request.
LEMMA BeginsUntouched ==
    /\ Init => OnceInv
    /\ Relaunch => OnceInv'
<1>1. \A s \in Sessions : NoneOf[s] = 0
  BY DEF NoneOf
<1>2. ASSUME Init PROVE OnceInv
  <2>1. CallsInv
    BY <1>2 DEF Init, CallsInv, Announcing, Idle, Threads
  <2>2. ASSUME NEW s \in Sessions PROVE Untouched(s)
    BY <1>1, <1>2 DEF Init, Untouched, In, Outside, Idle, Asked
  <2>3. ASSUME NEW s \in Sessions PROVE Once(s)
    <3>1. s \notin alive
      BY <1>2 DEF Init
    <3> QED
      BY <2>2, <3>1
      DEF Untouched, Once, Waiting, SignedOnce, AuthorisedOnce, TestedOnce, AnsweredOnce, Threads
  <2> QED
    BY <2>1, <2>3 DEF OnceInv
<1>3. ASSUME Relaunch PROVE OnceInv'
  <2>1. CallsInv'
    BY <1>3 DEF Relaunch, CallsInv, Announcing, Idle, Threads
  <2>2. ASSUME NEW s \in Sessions PROVE Untouched(s)'
    BY <1>1, <1>3 DEF Relaunch, Untouched, In, Outside, Idle, Asked
  <2>3. ASSUME NEW s \in Sessions PROVE Once(s)'
    BY <1>3, <2>2, UntouchedOnce DEF Relaunch
  <2> QED
    BY <2>1, <2>3 DEF OnceInv
<1> QED
  BY <1>2, <1>3

\* In every reachable state the pipeline is typed, its lights stand for what they say, and
\* every request but the one that saw the device become ready is on one way to each light,
\* in one place on it: PipelineInv, for any set of requests and any bounds.
THEOREM PipelineInvariant == Spec => []PipelineInv
<1>1. Init => OnceInv
  BY BeginsUntouched
<1>2. TypeOK /\ LightsInv /\ OnceInv /\ [Next]_vars => OnceInv'
  <2> SUFFICES ASSUME TypeOK, LightsInv, OnceInv, [Next]_vars PROVE OnceInv'
    OBVIOUS
  <2>1. CASE UNCHANGED vars
    BY <2>1, NothingMoves DEF vars, keys, access_, lights, progress, world
  <2>2. CASE Main
    BY <2>2, SessionKeeps DEF Main, Threads
  <2>3. CASE Queue
    BY <2>3, SessionKeeps, CallsKeep, StillKeeps, AskAgainKeeps DEF Queue, Threads
  <2>4. CASE Reply
    BY <2>4, StillKeeps, RegisteredKeeps, TokenKeeps, TaskKeeps DEF Reply
  <2> QED
    BY <2>1, <2>2, <2>3, <2>4, StartKeeps, StillKeeps, BeginsUntouched DEF Next
<1> QED
  BY <1>1, <1>2, TypeCorrect, LightsInvariant, PTL DEF Spec, PipelineInv

\* A request is sent at most once and completed at most once, for every request but the
\* one being started when the device becomes ready: AtMostOnce in every reachable state.
THEOREM SentAtMostOnce == Spec => []AtMostOnce
<1>1. PipelineInv => AtMostOnce
  <2> SUFFICES ASSUME PipelineInv, NEW s \in Sessions \ {crossed}
               PROVE  executed[s] <= 1 /\ completed[s] <= 1
    BY DEF AtMostOnce
  <2>1. TestedOnce(s) /\ AnsweredOnce(s)
    BY DEF PipelineInv, OnceInv, Once
  <2>2. executed[s] \in Nat /\ flying[s] \in Nat /\ completed[s] \in Nat
    BY DEF PipelineInv, TypeOK, ProgressOK
  <2> QED
    BY <2>1, <2>2 DEF TestedOnce, AnsweredOnce
<1> QED
  BY <1>1, PipelineInvariant, PTL

\* Once the callbacks have run no request waits for its signature, but for the one being
\* started when the device became ready: NobodyForgotten in every reachable state.
THEOREM NobodyIsForgotten == Spec => []NobodyForgotten
<1>1. PipelineInv => NobodyForgotten
  <2> SUFFICES ASSUME PipelineInv, ready, storedKey,
                      NEW s \in alive \ ({crossed} \cup {run[t].s : t \in Threads})
               PROVE  s \in crypto
    BY DEF NobodyForgotten
  <2>1. s \in Sessions \ {crossed} /\ \A t \in Threads : run[t].s # s
    BY DEF PipelineInv, TypeOK, ProgressOK
  <2>2. Once(s) /\ CallsInv
    BY <2>1 DEF PipelineInv, OnceInv
  <2>3. ~Waiting(s)
    BY <2>2 DEF Waiting, CallsInv, Announcing
  <2> QED
    BY <2>1, <2>2, <2>3 DEF Once, SignedOnce, In
<1> QED
  BY <1>1, PipelineInvariant, PTL

-----------------------------------------------------------------------------
\* Whatever the pipeline holds of a request in this launch, it was made in this launch:
\* the crossed one too, of which the other invariants say nothing.
OpenedInv ==
    /\ alive \subseteq started
    /\ \A t \in Threads : run[t].s \in started \cup {NoSession}
    /\ \A r \in tokenNet : r.s \in started
    /\ \A s \in Sessions : flying[s] > 0 => s \in started
    /\ crossed \in started \cup {NoSession}

\* The steps of a thread in its session hold no more requests than before.
LEMMA SessionOpened ==
    ASSUME TypeOK, OpenedInv, NEW t \in Threads, Session(t) \/ Complete(t)
    PROVE  OpenedInv'
<1>r. RunOK /\ ProgressOK /\ TokensOK
  BY DEF TypeOK
<1>1. run[t].s \in started /\ run[t].s \in Sessions
  <2>1. run[t].at \notin {"idle", "loop", "calling", "archive"}
    BY DEF Session, Complete, Sign, CryptoLight, CryptoTest, Authorize, AccessLight, AccessTest,
       TestReady, AddCallback, TestToken, UpdateToken, At
  <2> QED
    BY <1>r, <2>1, SessionAssumption DEF RunOK, OpenedInv
<1>2. UNCHANGED <<started, alive, crossed>>
  BY DEF Session, Complete, Sign, CryptoLight, CryptoTest, Authorize, AccessLight, AccessTest,
     TestReady, AddCallback, TestToken, UpdateToken, progress, world
<1>3. \A u \in Threads : run'[u].s \in {run[u].s, NoSession}
  <2>1. (\E label \in Labels : Goto(t, label)) \/ Finish(t)
    BY DEF Session, Complete, Sign, CryptoLight, CryptoTest, Authorize, AccessLight, AccessTest,
       TestReady, AddCallback, TestToken, UpdateToken, Labels
  <2> QED
    BY <1>r, <2>1 DEF Goto, Finish, RunOK, Idle
<1>4. \A r \in tokenNet' : r \in tokenNet \/ r.s = run[t].s
  <2>1. tokenNet' = tokenNet \/ AskToken(run[t].s)
    BY DEF Session, Complete, Sign, CryptoLight, CryptoTest, Authorize, AccessLight, AccessTest,
       TestReady, AddCallback, TestToken, UpdateToken, access_
  <2> DEFINE q == [scope |-> IF general.valid THEN "private" ELSE "general", s |-> run[t].s, n |-> tokens]
  <2>2. q.s = run[t].s /\ (AskToken(run[t].s) => tokenNet' = tokenNet \cup {q})
    BY DEF AskToken
  <2> HIDE DEF q
  <2> QED
    BY <2>1, <2>2
<1>5. \A s \in Sessions : flying'[s] = flying[s] \/ s = run[t].s
  BY <1>r DEF Session, Complete, Sign, CryptoLight, CryptoTest, Authorize, AccessLight, AccessTest,
     TestReady, AddCallback, TestToken, UpdateToken, TestAndExecute, ProgressOK, progress
<1> QED
  BY <1>1, <1>2, <1>3, <1>4, <1>5 DEF OpenedInv

\* Nor do the other steps of the queue.
LEMMA QueueOpened ==
    ASSUME TypeOK, OpenedInv,
           BeginCalls \/ NextCall \/ EndCalls \/ RaiseMutated \/ Archive \/ AskAgain
    PROVE  OpenedInv'
<1>r. RunOK /\ ProgressOK /\ TokensOK /\ "queue" \in Threads
  BY DEF TypeOK, Threads
<1>1. UNCHANGED <<started, alive, crossed, flying>>
  BY DEF BeginCalls, NextCall, EndCalls, RaiseMutated, Archive, AskAgain, progress, world
<1>2. \A u \in Threads : run'[u].s \in {run[u].s, NoSession} \cup alive
  <2>1. \/ (\E label \in Labels : Goto("queue", label)) \/ Finish("queue") \/ run' = run
        \/ \E s \in alive : run' = [run EXCEPT !["queue"] = [at |-> "sign", s |-> s]]
    BY DEF BeginCalls, NextCall, EndCalls, RaiseMutated, Archive, AskAgain, Labels
  <2> QED
    BY <1>r, <2>1 DEF Goto, Finish, RunOK, Idle
<1>3. \A r \in tokenNet' : r \in tokenNet \/ (AskAgain /\ r.s = run["queue"].s)
  BY DEF BeginCalls, NextCall, EndCalls, RaiseMutated, Archive, AskAgain, AskToken, access_
<1>4. AskAgain => run["queue"].s \in started
  BY <1>r, SessionAssumption DEF AskAgain, At, RunOK, OpenedInv
<1> QED
  BY <1>1, <1>2, <1>3, <1>4 DEF OpenedInv

\* Nor does a reply.
LEMMA ReplyOpened ==
    ASSUME TypeOK, OpenedInv, Reply
    PROVE  OpenedInv'
<1>r. RunOK /\ ProgressOK /\ TokensOK /\ "queue" \in Threads /\ "main" \in Threads
  BY DEF TypeOK, Threads
<1>1. started' = started /\ alive' \subseteq alive /\ tokenNet' \subseteq tokenNet
  BY DEF Reply, RegistrationFails, KeyMissing, Registered, TokenFails, TokenMissing, GeneralReply,
     PrivateReply, TaskReply, CallCompletion, access_, progress
<1>2. \A s \in Sessions : flying'[s] = flying[s] \/ flying[s] > 0
  BY <1>r DEF Reply, RegistrationFails, KeyMissing, Registered, TokenFails, TokenMissing,
     GeneralReply, PrivateReply, TaskReply, progress, ProgressOK
<1>3. \A u \in Threads : run'[u].s = run[u].s \/ \E r \in tokenNet : run'[u].s = r.s
  <2>1. \/ Goto("queue", "loop") \/ run' = run
        \/ \E r \in tokenNet, label \in Labels :
               run' = [run EXCEPT !["queue"] = [at |-> label, s |-> r.s]]
    BY DEF Reply, RegistrationFails, KeyMissing, Registered, TokenFails, TokenMissing, GeneralReply,
       PrivateReply, TaskReply, Labels
  <2> QED
    BY <1>r, <2>1 DEF Goto, RunOK
<1>4. crossed' \in {crossed, run["main"].s}
  BY DEF Reply, RegistrationFails, KeyMissing, Registered, TokenFails, TokenMissing, GeneralReply,
     PrivateReply, TaskReply, world
<1> QED
  BY <1>r, <1>1, <1>2, <1>3, <1>4 DEF OpenedInv

\* OpenedInv is kept by every step.
LEMMA OpenedKeeps ==
    ASSUME TypeOK, OpenedInv, [Next]_vars
    PROVE  OpenedInv'
<1>r. RunOK /\ ProgressOK
  BY DEF TypeOK
<1>1. CASE UNCHANGED vars
  BY <1>1 DEF OpenedInv, vars, access_, progress, world
<1>2. ASSUME NEW t \in Threads, NEW s \in Sessions, Start(t, s) PROVE OpenedInv'
  <2>1. \A u \in Threads : run'[u].s \in {run[u].s, s}
    BY <1>r, <1>2 DEF Start, RunOK
  <2> QED
    BY <1>2, <2>1 DEF Start, OpenedInv, access_, world
<1>3. CASE Main
  BY <1>3, SessionOpened DEF Main, Threads
<1>4. CASE Queue
  BY <1>4, SessionOpened, QueueOpened DEF Queue, Threads
<1>5. CASE Expire
  BY <1>5 DEF Expire, OpenedInv, progress, world
<1>6. CASE Relaunch
  <2>1. \A t \in Threads : run'[t].s = NoSession
    BY <1>6 DEF Relaunch, Idle
  <2>2. \A s \in Sessions : flying'[s] = 0
    BY <1>6 DEF Relaunch, NoneOf
  <2>3. alive' = {} /\ tokenNet' = {} /\ crossed' = NoSession
    BY <1>6 DEF Relaunch
  <2> QED
    BY <2>1, <2>2, <2>3 DEF OpenedInv
<1> QED
  BY <1>1, <1>2, <1>3, <1>4, <1>5, <1>6, ReplyOpened DEF Next

\* A test of the lights keeps the promise: it starts the task of a request that is made,
\* and unless it is the crossed one neither sent nor answered yet.
LEMMA TestKeepsPromise ==
    ASSUME PipelineInv, OpenedInv, NEW t \in Threads,
           run[t].at \in {"cryptoTest", "accessTest"}, TestAndExecute(run[t].s),
           UNCHANGED <<started, completed, crossed>>
    PROVE  [Promise!Next]_(Promise!vars)
<1>r. RunOK /\ ProgressOK
  BY DEF PipelineInv, TypeOK
<1>1. PICK s \in Sessions : s = run[t].s /\ In(t, s)
  BY <1>r DEF RunOK, In, Outside
<1>2. CASE s \in crypto /\ s \in access
  <2>1. executed' = [executed EXCEPT ![s] = @ + 1]
    BY <1>1, <1>2 DEF TestAndExecute
  <2>2. s \in started
    BY <1>1, SessionAssumption DEF OpenedInv
  <2>3. s \in {crossed} \ {NoSession} \/ (executed[s] = 0 /\ completed[s] = 0)
    <3> SUFFICES ASSUME s # crossed PROVE executed[s] = 0 /\ completed[s] = 0
      BY SessionAssumption
    <3>1. TestedOnce(s) /\ AnsweredOnce(s)
      BY DEF PipelineInv, OnceInv, Once
    <3>2. executed[s] = 0
      BY <1>r, <1>1, <3>1 DEF TestedOnce, ProgressOK
    <3>3. completed[s] + flying[s] = executed[s]
      BY <1>2, <3>1 DEF AnsweredOnce
    <3> QED
      BY <1>r, <3>2, <3>3 DEF ProgressOK
  <2>4. Promise!Send(s)
    BY <2>1, <2>2, <2>3 DEF Promise!Send
  <2> QED
    BY <2>4 DEF Promise!Next
<1>3. CASE ~(s \in crypto /\ s \in access)
  BY <1>1, <1>3 DEF TestAndExecute, Promise!vars
<1> QED
  BY <1>2, <1>3

\* A completion keeps it: of a request that was not completed yet, or the crossed one.
LEMMA CompletionKeepsPromise ==
    ASSUME OpenedInv, NEW s \in Sessions, s \in started, CallCompletion(s),
           s = crossed \/ completed[s] = 0, UNCHANGED <<started, executed, crossed>>
    PROVE  Promise!Next
<1>1. Promise!Answer(s)
  BY SessionAssumption DEF Promise!Answer, CallCompletion
<1> QED
  BY <1>1 DEF Promise!Next

\* Every reply keeps it.
LEMMA ReplyKeepsPromise ==
    ASSUME PipelineInv, OpenedInv, Reply
    PROVE  [Promise!Next]_(Promise!vars)
<1>r. RunOK /\ ProgressOK /\ "main" \in Threads
  BY DEF PipelineInv, TypeOK, Threads
<1>1. CASE Registered
  <2>1. UNCHANGED <<started, executed, completed>> /\ crossed' = run["main"].s
    BY <1>1 DEF Registered, progress
  <2>2. crossed = NoSession
    BY <1>1 DEF Registered, PipelineInv, OnceInv, CallsInv
  <2>3. CASE run["main"].s = NoSession
    BY <2>1, <2>2, <2>3 DEF Promise!vars
  <2>4. CASE run["main"].s # NoSession
    <3>1. run["main"].s \in started /\ run["main"].s \in Sessions
      BY <1>r, <2>4 DEF OpenedInv, RunOK
    <3>2. Promise!Stray(run["main"].s)
      BY <2>1, <2>2, <2>4, <3>1 DEF Promise!Stray
    <3> QED
      BY <3>1, <3>2 DEF Promise!Next
  <2> QED
    BY <2>3, <2>4
<1>2. ASSUME NEW r \in tokenNet, TokenFails(r) PROVE [Promise!Next]_(Promise!vars)
  <2>1. UNCHANGED <<started, executed, crossed>> /\ run["queue"].at = "idle"
        /\ tokenNet' = tokenNet \ {r}
    BY <1>2 DEF TokenFails, lights, world, At
  <2>2. r.s \in started /\ r.s \in Sessions
    BY DEF OpenedInv, PipelineInv, TypeOK, TokensOK
  <2>3. CASE r.s \in alive
    <3>1. r.s = crossed \/ completed[r.s] = 0
      <4> SUFFICES ASSUME r.s # crossed PROVE completed[r.s] = 0
        OBVIOUS
      <4>1. completed[r.s] + flying[r.s] = executed[r.s] /\ r.s \notin access
        BY <2>1, <2>2, ReplyFinds DEF PipelineInv
      <4>2. executed[r.s] = 0
        BY <1>r, <2>2, <4>1 DEF PipelineInv, LightsInv, ProgressOK
      <4> QED
        BY <1>r, <2>2, <4>1, <4>2 DEF ProgressOK
    <3>2. CallCompletion(r.s)
      BY <1>2, <2>3 DEF TokenFails
    <3> QED
      BY <2>1, <2>2, <3>1, <3>2, CompletionKeepsPromise
  <2>4. CASE r.s \notin alive
    BY <1>2, <2>1, <2>4 DEF TokenFails, Promise!vars
  <2> QED
    BY <2>3, <2>4
<1>3. ASSUME NEW s \in Sessions, TaskReply(s) PROVE [Promise!Next]_(Promise!vars)
  <2>1. /\ UNCHANGED <<started, executed, crossed>> /\ flying[s] > 0 /\ CallCompletion(s)
    BY <1>3 DEF TaskReply, world
  <2>2. s = crossed \/ completed[s] = 0
    <3> SUFFICES ASSUME s # crossed PROVE completed[s] = 0
      OBVIOUS
    <3>1. TestedOnce(s) /\ AnsweredOnce(s)
      BY DEF PipelineInv, OnceInv, Once
    <3>2. completed[s] + flying[s] = executed[s] /\ executed[s] <= 1
      BY <2>1, <3>1 DEF AnsweredOnce, TestedOnce
    <3> QED
      BY <1>r, <2>1, <3>2 DEF ProgressOK
  <2> QED
    BY <2>1, <2>2, CompletionKeepsPromise DEF OpenedInv
<1>4. CASE RegistrationFails \/ KeyMissing \/ \E r \in tokenNet : TokenMissing(r) \/ GeneralReply(r) \/ PrivateReply(r)
  BY <1>4 DEF RegistrationFails, KeyMissing, TokenMissing, GeneralReply, PrivateReply, progress,
     world, Promise!vars
<1> QED
  BY <1>1, <1>2, <1>3, <1>4 DEF Reply

\* Every step is a step of RequestPromise or leaves what it speaks of alone.
LEMMA StepKeepsPromise ==
    ASSUME PipelineInv, OpenedInv, [Next]_vars
    PROVE  [Promise!Next]_(Promise!vars)
<1>1. CASE UNCHANGED vars
  BY <1>1 DEF vars, progress, world, Promise!vars
<1>2. ASSUME NEW t \in Threads, NEW s \in Sessions, Start(t, s) PROVE Promise!Next
  <2>1. Promise!Open(s)
    BY <1>2 DEF Start, world, Promise!Open
  <2> QED
    BY <2>1 DEF Promise!Next
<1>3. ASSUME NEW t \in Threads, Session(t) \/ Complete(t) PROVE [Promise!Next]_(Promise!vars)
  <2>1. CASE CryptoTest(t) \/ AccessTest(t)
    <3>1. /\ run[t].at \in {"cryptoTest", "accessTest"} /\ TestAndExecute(run[t].s)
          /\ UNCHANGED <<started, completed, crossed>>
      BY <2>1 DEF CryptoTest, AccessTest, At, world
    <3> QED
      BY <3>1, TestKeepsPromise
  <2>2. CASE ~CryptoTest(t) /\ ~AccessTest(t)
    BY <1>3, <2>2 DEF Session, Complete, Sign, CryptoLight, Authorize, AccessLight, TestReady,
       AddCallback, TestToken, UpdateToken, progress, world, Promise!vars
  <2> QED
    BY <2>1, <2>2
<1>4. CASE BeginCalls \/ NextCall \/ EndCalls \/ RaiseMutated \/ Archive \/ AskAgain \/ Expire
  BY <1>4 DEF BeginCalls, NextCall, EndCalls, RaiseMutated, Archive, AskAgain, Expire, progress,
     world, Promise!vars
<1>5. CASE Relaunch
  <2>1. Promise!Launch
    BY <1>5 DEF Relaunch, Promise!Launch, Promise!Fresh, Promise!Never, NoneOf
  <2> QED
    BY <2>1 DEF Promise!Next
<1> QED
  BY <1>1, <1>2, <1>3, <1>4, <1>5, ReplyKeepsPromise DEF Next, Main, Queue, Threads

\* The pipeline implements RequestPromise: KeepsPromise, for any set of requests, any
\* outcome of the registration and the token requests, and any bounds.
THEOREM PromiseKept == Spec => KeepsPromise
<1>1. Init => Promise!Fresh
  BY DEF Init, NoneOf, Promise!Fresh, Promise!Never
<1>2. ASSUME Init PROVE OpenedInv
  <2>1. \A t \in Threads : run[t].s = NoSession
    BY <1>2 DEF Init, Idle
  <2>2. \A s \in Sessions : flying[s] = 0
    BY <1>2 DEF Init, NoneOf
  <2>3. alive = {} /\ tokenNet = {} /\ crossed = NoSession
    BY <1>2 DEF Init
  <2> QED
    BY <2>1, <2>2, <2>3 DEF OpenedInv
<1>3. PipelineInv => TypeOK
  BY DEF PipelineInv
<1>4. Spec => []OpenedInv
  BY <1>2, <1>3, OpenedKeeps, PipelineInvariant, PTL DEF Spec
<1> QED
  BY <1>1, <1>4, StepKeepsPromise, PipelineInvariant, PTL DEF Spec, KeepsPromise, Promise!Spec
================================================================================
