----------------------------- MODULE TokenStore -----------------------------
(***************************************************************************)
(* The tokens that LMAccessTokenManager keeps, and the bytes and defaults  *)
(* in which LMAccessTokenModel and the manager carry them from one launch  *)
(* to the next.                                                            *)
(*                                                                         *)
(* The delegate queue handles the replies, one access to the manager or to *)
(* the user defaults at a time; the main thread asks for tokens and puts   *)
(* them into headers meanwhile, and the program may end at any moment.     *)
(* The user defaults are external: a write is kept once it was made.       *)
(*                                                                         *)
(* A nil object is {}, any other a set of one.  A byte is a record that    *)
(* says which it is: of an expiry, or a character of a token.              *)
(***************************************************************************)
EXTENDS Naturals, Sequences, SequencesExt

CONSTANTS
    Lengths,      \* how many characters a token may have
    MaxReplies,   \* bound: tokens the server issues
    MaxLaunches   \* bound: times the program is started

ASSUME LengthAssumption == Lengths \subseteq Nat
ASSUME BoundAssumption == MaxReplies \in Nat /\ MaxLaunches \in Nat

VARIABLES
    general,      \* _generalAccess
    private,      \* _privateAccess
    type,         \* _authorizationType
    storedData,   \* user defaults: the bytes under the private token's key
    storedType,   \* user defaults: the type under its key
    net,          \* how many requests for a token of either scope are in flight, up to 2
    handling,     \* the delegate queue: where the handler of a reply is
    issued,       \* how many tokens were issued
    expired,      \* those of them that have expired
    header,       \* the Authorization header made last
    launches,
    torn,         \* history: a launch ended between the two writes, none before it
    kept,         \* history: the model that was written last
    fresh         \* history: nothing was written in this launch

manager == <<general, private, type>>
defaults == <<storedData, storedType>>
vars == <<manager, defaults, net, handling, issued, expired, header, launches,
          torn, kept, fresh>>

----------------------------------------------------------------------------
(* LMAccessTokenModel.                                                     *)

ExpiryBytes(n) == [i \in 1 .. 8 |-> [is |-> "expiry", of |-> n, at |-> i]]
Characters(n, length) == [i \in 1 .. length |-> [is |-> "character", of |-> n, at |-> i]]

Stray == [is |-> "stray"]       \* a byte of the stack that looks like a character
Broken == [is |-> "broken"]     \* one that does not

Model(n, length) == [expiry |-> ExpiryBytes(n), token |-> {Characters(n, length)}]

IsValid(models) ==
    \E m \in models : m.token # {} /\ \A n \in expired : m.expiry # ExpiryBytes(n)

\* The expiry in eight bytes, then the characters.
DataStore(m) == {m.expiry \o t : t \in m.token}

\* The string of a C string: nil if it is not one of UTF-8.
StringOf(bytes) == IF Contains(bytes, Broken) THEN {} ELSE {bytes}

\* initWithDataStore: copies the characters into an array without a terminator, so
\* that the string ends wherever the stack behind it has a zero.
Behind == {<< >>, << Stray >>, << Broken >>}

TokenStart_Off == 8              \* mutant: off by one
TokenStart == 9

Read(bytes) ==
    IF Len(bytes) < 8 THEN {{}}
    ELSE {{[expiry |-> SubSeq(bytes, 1, 8),
            token |-> StringOf(SubSeq(bytes, TokenStart, Len(bytes)) \o rest)]} : rest \in Behind}

\* nil has no bytes, and makes no model.
InitWithDataStore(data) == IF data = {} THEN {{}} ELSE UNION {Read(bytes) : bytes \in data}

----------------------------------------------------------------------------
Idle == [at |-> "idle", model |-> {}]

Scopes == {"general", "private"}
Nothing == [scope \in Scopes |-> 0]
SendRequest(scope) == net' = [net EXCEPT ![scope] = IF @ < 2 THEN @ + 1 ELSE @]
Take(scope) == net[scope] > 0 /\ net' = [net EXCEPT ![scope] = @ - 1]

Init ==
    /\ general = {} /\ private = {} /\ type = "none"
    /\ storedData = {} /\ storedType = "none"
    /\ net = Nothing /\ handling = Idle
    /\ issued = 0 /\ expired = {}
    /\ header = {} /\ launches = 1
    /\ torn = FALSE /\ kept = {} /\ fresh = TRUE

\* A type is nil when no reply brought one yet ("none"), and when the last one brought none.
Absent == "absent"

\* With the type there is; excused keeps why it might be nil.
AuthorizationValue(models) ==
    {[type |-> type, token |-> m.token, excused |-> torn \/ handling.at = "type"] : m \in models}

\* updatePrivateAccessToken: the general token must be valid to ask for a private one.
UpdatePrivate ==
    IF IsValid(general)
    THEN /\ header' = AuthorizationValue(general)
         /\ SendRequest("private")
    ELSE /\ SendRequest("general")
         /\ UNCHANGED header

\* A request is made on the main thread: complete of LMInnerTubeSession.
Complete ==
    /\ IF IsValid(private)
       THEN header' = AuthorizationValue(private) /\ UNCHANGED net
       ELSE UpdatePrivate
    /\ UNCHANGED <<manager, defaults, handling, issued, expired, launches, torn, kept, fresh>>

\* A request ends with an error, and so does what waits for it.
Fails ==
    /\ handling = Idle
    /\ \E scope \in Scopes : Take(scope)
    /\ UNCHANGED <<manager, defaults, handling, issued, expired, header, launches,
                   torn, kept, fresh>>

----------------------------------------------------------------------------
(* The delegate queue: a reply is handled one access after another.        *)

\* Expired on arrival is Expire between here and the next step.
GeneralReply ==
    /\ handling = Idle
    /\ Take("general") /\ issued < MaxReplies
    /\ issued' = issued + 1
    /\ \E length \in Lengths :
           /\ general' = {Model(issued', length)}
           /\ handling' = [at |-> "type", model |-> general']
    /\ UNCHANGED <<private, type, defaults, expired, header, launches, torn, kept, fresh>>

\* Whatever the reply says, which may be nothing.
SetType ==
    /\ handling.at = "type"
    /\ type' \in {"bearer", Absent}
    /\ handling' = [handling EXCEPT !.at = "storeData"]
    /\ UNCHANGED <<general, private, defaults, net, issued, expired, header, launches,
                   torn, kept, fresh>>

\* The general token goes under the private token's key.
StoreData ==
    /\ handling.at = "storeData"
    /\ storedData' = UNION {DataStore(m) : m \in handling.model}
    /\ kept' = handling.model
    /\ fresh' = FALSE
    /\ handling' = [handling EXCEPT !.at = "storeType"]
    /\ UNCHANGED <<manager, storedType, net, issued, expired, header, launches, torn>>

TypeToStore_None == "none"       \* mutant: the type is only kept in memory
TypeToStore == type

\* No object to set removes what was set.
StoreType ==
    /\ handling.at = "storeType"
    /\ storedType' = TypeToStore
    /\ torn' = FALSE
    /\ handling' = [handling EXCEPT !.at = "again"]
    /\ UNCHANGED <<manager, storedData, net, issued, expired, header, launches, kept, fresh>>

\* The completion of a general update asks for the private token.
AskAgain ==
    /\ handling.at = "again"
    /\ UpdatePrivate
    /\ handling' = Idle
    /\ UNCHANGED <<manager, defaults, issued, expired, launches, torn, kept, fresh>>

PrivateReply ==
    /\ handling = Idle
    /\ Take("private") /\ issued < MaxReplies
    /\ issued' = issued + 1
    /\ \E length \in Lengths :
           /\ private' = {Model(issued', length)}
           /\ handling' = [at |-> "storePrivate", model |-> private']
    /\ UNCHANGED <<general, type, defaults, expired, header, launches, torn, kept, fresh>>

StorePrivate ==
    /\ handling.at = "storePrivate"
    /\ storedData' = UNION {DataStore(m) : m \in handling.model}
    /\ kept' = handling.model
    /\ fresh' = FALSE
    /\ handling' = [handling EXCEPT !.at = "authorize"]
    /\ UNCHANGED <<manager, storedType, net, issued, expired, header, launches, torn>>

\* The completion of a private update authorises the request that waits for it.
AuthorizePrivate ==
    /\ handling.at = "authorize"
    /\ header' = AuthorizationValue(private)
    /\ handling' = Idle
    /\ UNCHANGED <<manager, defaults, net, issued, expired, launches, torn, kept, fresh>>

----------------------------------------------------------------------------
Expire ==
    /\ \E n \in (1 .. issued) \ expired : expired' = expired \cup {n}
    /\ UNCHANGED <<manager, defaults, net, handling, issued, header, launches, torn,
                   kept, fresh>>

\* The program ends, at any moment, and is started again: init of the manager.
Relaunch ==
    /\ launches < MaxLaunches
    /\ launches' = launches + 1
    /\ general' = {}
    /\ private' \in InitWithDataStore(storedData)
    /\ type' = storedType
    /\ net' = Nothing /\ handling' = Idle /\ header' = {}
    /\ torn' = (torn \/ (handling.at = "storeType" /\ storedType = "none"))
    /\ fresh' = TRUE
    /\ UNCHANGED <<defaults, issued, expired, kept>>

Next ==
    \/ Complete \/ Fails
    \/ GeneralReply \/ SetType \/ StoreData \/ StoreType \/ AskAgain
    \/ PrivateReply \/ StorePrivate \/ AuthorizePrivate
    \/ Expire \/ Relaunch

Spec == Init /\ [][Next]_vars

----------------------------------------------------------------------------
\* A header lacks the type of authorization only if its token is that of a launch that
\* ended between the writes of the token and of the type, none having been written
\* before, or if it was made between the two assignments of a reply, or if the reply whose
\* type was kept last had none.
HeaderHasType ==
    \A h \in header : h.type = "none" => h.excused

\* What a launch begins with is what was written last: its expiry, and its characters,
\* perhaps with more behind them, or no characters at all.
TokenReadsBack ==
    (fresh /\ handling = Idle) => \A m \in private :
        \E k \in kept :
            /\ m.expiry = k.expiry
            /\ \A t \in m.token, u \in k.token : IsPrefix(u, t)
=============================================================================
