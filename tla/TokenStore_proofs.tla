-------------------------- MODULE TokenStore_proofs --------------------------
(***************************************************************************)
(* Proofs about TokenStore, for any tokens and bounds.                     *)
(***************************************************************************)
EXTENDS TokenStore, SequenceTheorems, TLAPS

\* What is known of the type: a token in memory has one, unless it is about to get it
\* or was read from a store whose writes were torn; and so has a token in the store.
TypeInv ==
    /\ handling.at \in {"idle", "type", "storeData", "storeType", "again",
                        "storePrivate", "authorize"}
    /\ type = "none" /\ general # {} => handling.at = "type"
    /\ type = "none" /\ private # {} => torn
    /\ type = "none" /\ net["private"] # 0 => handling.at = "type"
    /\ type = "none" => handling.at \in {"idle", "type"}
    /\ storedType = "none" /\ storedData # {} => torn \/ handling.at = "storeType"
    /\ type # "none" /\ storedType = "none" => handling.at \in {"storeData", "storeType"}
    /\ net \in [Scopes -> Nat]
    /\ HeaderHasType

\* A header that is made has the type, or the excuse.
LEMMA HeaderMade ==
    ASSUME TypeInv, NEW models,
           type = "none" /\ models # {} => torn \/ handling.at = "type"
    PROVE  \A h \in AuthorizationValue(models) : h.type = "none" => h.excused
<1>1. ASSUME NEW h \in AuthorizationValue(models), h.type = "none"
      PROVE  h.excused
  <2>1. PICK m \in models :
            h = [type |-> type, token |-> m.token, excused |-> torn \/ handling.at = "type"]
    BY <1>1 DEF AuthorizationValue
  <2>2. h.type = type /\ h.excused = (torn \/ handling.at = "type")
    BY <2>1, Zenon
  <2>3. torn \/ handling.at = "type"
    BY <1>1, <2>1, <2>2
  <2> QED
    BY <2>2, <2>3, Zenon
<1> QED
  BY <1>1

\* Asking for a token keeps what is known: only a general token in memory lets the
\* program ask for a private one.
LEMMA Asking ==
    ASSUME TypeInv, UpdatePrivate
    PROVE  /\ net' \in [Scopes -> Nat]
           /\ type = "none" /\ net'["private"] # 0 => handling.at = "type"
           /\ HeaderHasType'
<1>1. CASE IsValid(general)
  <2>1. general # {}
    BY <1>1 DEF IsValid
  <2>2. header' = AuthorizationValue(general) /\ SendRequest("private")
    BY <1>1 DEF UpdatePrivate
  <2>3. net' \in [Scopes -> Nat]
    BY <2>2 DEF SendRequest, TypeInv, Scopes
  <2>4. HeaderHasType'
    BY <2>2, HeaderMade DEF HeaderHasType, TypeInv
  <2> QED
    BY <2>1, <2>3, <2>4 DEF TypeInv
<1>2. CASE ~IsValid(general)
  <2>1. UNCHANGED header /\ SendRequest("general")
    BY <1>2 DEF UpdatePrivate
  <2>2. net' \in [Scopes -> Nat] /\ net'["private"] = net["private"]
    BY <2>1 DEF SendRequest, TypeInv, Scopes
  <2>3. HeaderHasType'
    BY <2>1 DEF HeaderHasType, TypeInv
  <2> QED
    BY <2>2, <2>3 DEF TypeInv
<1> QED
  BY <1>1, <1>2

LEMMA Taking ==
    ASSUME TypeInv, NEW scope \in Scopes, Take(scope)
    PROVE  /\ net' \in [Scopes -> Nat]
           /\ net'["private"] # 0 => net["private"] # 0
           /\ scope = "private" => net["private"] # 0
<1>1. net \in [Scopes -> Nat] /\ net[scope] > 0 /\ net' = [net EXCEPT ![scope] = @ - 1]
  BY DEF TypeInv, Take
<1> QED
  BY <1>1 DEF Scopes

LEMMA TypeStep == TypeInv /\ [Next]_vars => TypeInv'
<1> SUFFICES ASSUME TypeInv, [Next]_vars
             PROVE  TypeInv'
  OBVIOUS
<1> USE DEF TypeInv
<1>1. CASE Complete
  <2>1. CASE IsValid(private)
    <3>1. header' = AuthorizationValue(private) /\ UNCHANGED net
      BY <1>1, <2>1 DEF Complete
    <3>2. HeaderHasType'
      BY <3>1, HeaderMade DEF HeaderHasType
    <3> QED
      BY <1>1, <3>1, <3>2 DEF Complete, manager, defaults
  <2>2. CASE ~IsValid(private)
    <3>1. UpdatePrivate
      BY <1>1, <2>2 DEF Complete
    <3> QED
      BY <1>1, <3>1, Asking DEF Complete, manager, defaults
  <2> QED
    BY <2>1, <2>2
<1>2. CASE Fails
  <2>1. PICK scope \in Scopes : Take(scope)
    BY <1>2 DEF Fails
  <2> QED
    BY <1>2, <2>1, Taking DEF Fails, Idle, manager, defaults, HeaderHasType
<1>3. CASE GeneralReply
  <2>1. Take("general") /\ "general" \in Scopes
    BY <1>3 DEF GeneralReply, Scopes
  <2>2. handling'.at = "type" /\ UNCHANGED <<private, type, defaults, header, torn>>
    BY <1>3 DEF GeneralReply
  <2>3. handling.at = "idle"
    BY <1>3 DEF GeneralReply, Idle
  <2> QED
    BY <2>1, <2>2, <2>3, Taking DEF HeaderHasType, defaults
<1>4. CASE SetType
  BY <1>4 DEF SetType, Absent, defaults, HeaderHasType
<1>5. CASE StoreData
  BY <1>5 DEF StoreData, manager, HeaderHasType
<1>6. CASE StoreType
  BY <1>6 DEF StoreType, TypeToStore, manager, HeaderHasType
<1>7. CASE AskAgain
  <2>1. UpdatePrivate /\ handling' = Idle /\ handling.at = "again"
    BY <1>7 DEF AskAgain
  <2> QED
    BY <1>7, <2>1, Asking DEF AskAgain, Idle, manager, defaults
<1>8. CASE PrivateReply
  <2>1. Take("private") /\ "private" \in Scopes
    BY <1>8 DEF PrivateReply, Scopes
  <2>2. handling'.at = "storePrivate" /\ UNCHANGED <<general, type, defaults, header, torn>>
    BY <1>8 DEF PrivateReply
  <2>3. handling.at = "idle"
    BY <1>8 DEF PrivateReply, Idle
  <2>4. type # "none"
    BY <2>1, <2>3, Taking
  <2> QED
    BY <2>1, <2>2, <2>3, <2>4, Taking DEF HeaderHasType, defaults
<1>9. CASE StorePrivate
  BY <1>9 DEF StorePrivate, manager, HeaderHasType
<1>10. CASE AuthorizePrivate
  <2>1. header' = AuthorizationValue(private) /\ handling' = Idle
    BY <1>10 DEF AuthorizePrivate
  <2>2. HeaderHasType'
    BY <2>1, HeaderMade DEF HeaderHasType
  <2> QED
    BY <1>10, <2>1, <2>2 DEF AuthorizePrivate, Idle, manager, defaults
<1>11. CASE Expire
  BY <1>11 DEF Expire, manager, defaults, HeaderHasType
<1>12. CASE Relaunch
  <2>1. /\ general' = {} /\ type' = storedType /\ net' = Nothing /\ handling' = Idle
        /\ header' = {} /\ UNCHANGED defaults
        /\ torn' = (torn \/ (handling.at = "storeType" /\ storedType = "none"))
        /\ private' \in InitWithDataStore(storedData)
    BY <1>12 DEF Relaunch
  <2>2. storedData = {} => private' = {}
    BY <2>1 DEF InitWithDataStore
  <2>3. net' \in [Scopes -> Nat] /\ net'["private"] = 0
    BY <2>1 DEF Nothing, Scopes
  <2>4. HeaderHasType'
    BY <2>1 DEF HeaderHasType
  <2> QED
    BY <2>1, <2>2, <2>3, <2>4 DEF Idle, defaults
<1>13. CASE UNCHANGED vars
  BY <1>13 DEF vars, manager, defaults, HeaderHasType
<1> QED
  BY <1>1, <1>2, <1>3, <1>4, <1>5, <1>6, <1>7, <1>8, <1>9, <1>10, <1>11, <1>12, <1>13
  DEF Next

\* Through any replies, expiries and relaunches, a header lacks the type of
\* authorization only after torn writes, between the two assignments of a reply or when
\* the last reply said none.
THEOREM HeadersHaveType == Spec => []HeaderHasType
<1>1. Init => TypeInv
  BY DEF Init, TypeInv, Idle, Nothing, Scopes, HeaderHasType
<1>2. TypeInv => HeaderHasType
  BY DEF TypeInv
<1> QED
  BY <1>1, <1>2, TypeStep, PTL DEF Spec

-----------------------------------------------------------------------------
\* A concatenation is cut where it was joined, and its first part is a prefix.
LEMMA CutBack ==
    ASSUME NEW S, NEW e \in Seq(S), NEW c \in Seq(S)
    PROVE  /\ SubSeq(e \o c, 1, Len(e)) = e
           /\ SubSeq(e \o c, Len(e) + 1, Len(e \o c)) = c
           /\ IsPrefix(e, e \o c)
<1>1. /\ e \o c \in Seq(S) /\ Len(e \o c) = Len(e) + Len(c)
      /\ Len(e) \in Nat /\ Len(c) \in Nat
      /\ \A i \in 1 .. Len(e) : (e \o c)[i] = e[i]
      /\ \A i \in 1 .. Len(c) : (e \o c)[Len(e) + i] = c[i]
  BY ConcatProperties
<1>2. SubSeq(e \o c, 1, Len(e)) = e
  <2>1. \A i \in 1 .. Len(e) : (e \o c)[i] \in S
    BY <1>1
  <2>2. /\ SubSeq(e \o c, 1, Len(e)) \in Seq(S)
        /\ Len(SubSeq(e \o c, 1, Len(e))) = Len(e)
        /\ \A i \in 1 .. Len(e) : SubSeq(e \o c, 1, Len(e))[i] = (e \o c)[i]
    BY <1>1, <2>1, SubSeqProperties
  <2> QED
    BY <1>1, <2>2, SeqEqual
<1>3. SubSeq(e \o c, Len(e) + 1, Len(e \o c)) = c
  <2> DEFINE tail == SubSeq(e \o c, Len(e) + 1, Len(e \o c))
  <2>1. \A i \in Len(e) + 1 .. Len(e \o c) : (e \o c)[i] \in S
    BY <1>1
  <2>2. /\ tail \in Seq(S)
        /\ Len(tail) = Len(c)
        /\ \A i \in 1 .. Len(c) : tail[i] = (e \o c)[Len(e) + i]
    BY <1>1, <2>1, SubSeqProperties
  <2> QED
    BY <1>1, <2>2, SeqEqual
<1>4. IsPrefix(e, e \o c)
  BY <1>1, <1>2, SubSeqFull DEF IsPrefix
<1> QED
  BY <1>2, <1>3, <1>4

Bytes == [is : {"expiry", "character"}, of : Nat, at : Nat] \cup {Stray, Broken}

\* What the server issues, and what may be read back for the model k.
Issued == {Model(n, length) : n \in Nat, length \in Nat}

IsBack(m, k) == /\ m.expiry = k.expiry
                /\ \A t \in m.token, u \in k.token : IsPrefix(u, t)

LEMMA ModelBytes ==
    ASSUME NEW n \in Nat, NEW length \in Nat
    PROVE  /\ ExpiryBytes(n) \in Seq(Bytes) /\ Len(ExpiryBytes(n)) = 8
           /\ Characters(n, length) \in Seq(Bytes)
           /\ Model(n, length).expiry = ExpiryBytes(n)
           /\ Model(n, length).token = {Characters(n, length)}
<1>1. \A i \in 1 .. 8 : [is |-> "expiry", of |-> n, at |-> i] \in Bytes
  BY DEF Bytes
<1>2. \A i \in 1 .. length : [is |-> "character", of |-> n, at |-> i] \in Bytes
  BY DEF Bytes
<1>3. ExpiryBytes(n) \in Seq(Bytes) /\ Len(ExpiryBytes(n)) = 8
  BY <1>1 DEF ExpiryBytes
<1>4. Characters(n, length) \in Seq(Bytes)
  BY <1>2 DEF Characters
<1> QED
  BY <1>3, <1>4 DEF Model

\* Eight bytes come off again.
LEMMA CutEight ==
    ASSUME NEW S, NEW e \in Seq(S), NEW c \in Seq(S)
    PROVE  Len(e) = 8 => /\ ~(Len(e \o c) < 8)
                         /\ SubSeq(e \o c, 1, 8) = e
                         /\ SubSeq(e \o c, 9, Len(e \o c)) = c
<1>1. Len(e \o c) = Len(e) + Len(c) /\ Len(c) \in Nat
  BY ConcatProperties
<1>2. SubSeq(e \o c, 1, Len(e)) = e /\ SubSeq(e \o c, Len(e) + 1, Len(e \o c)) = c
  BY CutBack
<1> QED
  BY <1>1, <1>2

LEMMA BehindBytes ==
    ASSUME NEW rest \in Behind
    PROVE  rest \in Seq(Bytes)
<1>1. Stray \in Bytes /\ Broken \in Bytes
  BY DEF Bytes
<1>2. \A b \in Bytes : << b >> \in Seq(Bytes)
  OBVIOUS
<1>3. << >> \in Seq(Bytes)
  OBVIOUS
<1>4. << Stray >> \in Seq(Bytes) /\ << Broken >> \in Seq(Bytes)
  BY <1>1, <1>2
<1>5. rest = << >> \/ rest = << Stray >> \/ rest = << Broken >>
  BY Zenon DEF Behind
<1> QED
  BY <1>3, <1>4, <1>5, Zenon

\* What is read from eight bytes and the characters behind them.
LEMMA ReadBytes ==
    ASSUME NEW e \in Seq(Bytes), NEW c \in Seq(Bytes), Len(e) = 8,
           NEW models \in Read(e \o c), NEW m \in models
    PROVE  m.expiry = e /\ \A t \in m.token : IsPrefix(c, t)
<1>1. /\ ~(Len(e \o c) < 8)
      /\ SubSeq(e \o c, 1, 8) = e
      /\ SubSeq(e \o c, TokenStart, Len(e \o c)) = c
  BY CutEight DEF TokenStart
<1>2. PICK rest \in Behind : m = [expiry |-> e, token |-> StringOf(c \o rest)]
  BY <1>1 DEF Read
<1>3. IsPrefix(c, c \o rest)
  BY BehindBytes, CutBack
<1>4. \A t \in m.token : t = c \o rest
  BY <1>2 DEF StringOf
<1> QED
  BY <1>2, <1>3, <1>4

\* The bytes of a model are read back as its expiry, and its characters with some of the
\* stack behind them, or none.
LEMMA ReadsBack ==
    ASSUME NEW k \in Issued, NEW bytes \in DataStore(k), NEW models \in Read(bytes), NEW m \in models
    PROVE  IsBack(m, k)
<1>1. PICK n \in Nat, length \in Nat : k = Model(n, length)
  BY DEF Issued
<1> DEFINE e == ExpiryBytes(n)
           c == Characters(n, length)
<1>2. /\ e \in Seq(Bytes) /\ Len(e) = 8 /\ c \in Seq(Bytes)
      /\ k.expiry = e /\ k.token = {c}
  BY <1>1, ModelBytes
<1> HIDE DEF e, c
<1>3. bytes = e \o c
  BY <1>2 DEF DataStore
<1> QED
  BY <1>2, <1>3, ReadBytes DEF IsBack

Stages == {"idle", "type", "storeData", "storeType", "again", "storePrivate", "authorize"}

\* What the handlers and the defaults know of the models: the bytes stored are those of
\* the model written last, and a launch that has written nothing holds what it read.
ReadInv ==
    /\ issued \in Nat
    /\ kept \subseteq Issued /\ handling \in [at : Stages, model : SUBSET Issued]
    /\ storedData = UNION {DataStore(k) : k \in kept}
    /\ handling.at \in {"storeType", "again", "authorize"} => ~fresh
    /\ fresh /\ handling.at # "storePrivate" => \A m \in private : \E k \in kept : IsBack(m, k)

LEMMA ReadStep == ReadInv /\ [Next]_vars => ReadInv'
<1> SUFFICES ASSUME ReadInv, [Next]_vars
             PROVE  ReadInv'
  OBVIOUS
<1> USE DEF ReadInv, Stages
<1>i. \A n \in Nat, length \in Lengths : Model(n, length) \in Issued
  BY LengthAssumption DEF Issued
<1>1. CASE Complete \/ Fails
  BY <1>1 DEF Complete, Fails, manager, defaults
<1>2. CASE GeneralReply
  <2>1. issued' \in Nat /\ UNCHANGED <<private, storedData, fresh, kept>>
    BY <1>2 DEF GeneralReply, defaults
  <2>2. handling'.at = "type" /\ handling' \in [at : Stages, model : SUBSET Issued]
    BY <1>2, <1>i, <2>1 DEF GeneralReply
  <2>3. handling.at = "idle"
    BY <1>2 DEF GeneralReply, Idle
  <2> QED
    BY <2>1, <2>2, <2>3
<1>3. CASE SetType
  <2>1. handling' = [handling EXCEPT !.at = "storeData"]
    BY <1>3 DEF SetType
  <2> QED
    BY <1>3, <2>1 DEF SetType, defaults
<1>4. CASE StoreData \/ StorePrivate
  <2>1. /\ handling'.at \in {"storeType", "authorize"}
        /\ handling' \in [at : Stages, model : SUBSET Issued]
    BY <1>4 DEF StoreData, StorePrivate
  <2>2. storedData' = UNION {DataStore(m) : m \in handling.model} /\ kept' = handling.model
        /\ fresh' = FALSE /\ UNCHANGED <<private, issued>>
    BY <1>4 DEF StoreData, StorePrivate, manager
  <2> QED
    BY <2>1, <2>2
<1>5. CASE StoreType
  BY <1>5 DEF StoreType, manager
<1>6. CASE AskAgain \/ AuthorizePrivate
  BY <1>6 DEF AskAgain, AuthorizePrivate, Idle, manager, defaults
<1>7. CASE PrivateReply
  <2>1. issued' \in Nat /\ UNCHANGED <<storedData, fresh, kept>>
    BY <1>7 DEF PrivateReply, defaults
  <2>2. handling'.at = "storePrivate" /\ handling' \in [at : Stages, model : SUBSET Issued]
    BY <1>7, <1>i, <2>1 DEF PrivateReply
  <2> QED
    BY <2>1, <2>2
<1>8. CASE Expire
  BY <1>8 DEF Expire, manager, defaults
<1>9. CASE Relaunch
  <2>1. /\ private' \in InitWithDataStore(storedData) /\ handling' = Idle
        /\ UNCHANGED <<storedData, issued, kept>>
    BY <1>9 DEF Relaunch, defaults
  <2>2. ASSUME NEW m \in private' PROVE \E k \in kept : IsBack(m, k)
    <3>1. PICK bytes \in storedData : private' \in Read(bytes)
      BY <2>1, <2>2 DEF InitWithDataStore
    <3>2. PICK k \in kept : bytes \in DataStore(k)
      BY <3>1
    <3> QED
      BY <2>2, <3>1, <3>2, ReadsBack
  <2> QED
    BY <2>1, <2>2 DEF Idle
<1>10. CASE UNCHANGED vars
  BY <1>10 DEF vars, manager, defaults
<1> QED
  BY <1>1, <1>2, <1>3, <1>4, <1>5, <1>6, <1>7, <1>8, <1>9, <1>10 DEF Next

\* A launch begins with the expiry written last and its characters, perhaps with more
\* behind them, or with no characters: TokenReadsBack, for tokens of any length.
THEOREM TokensReadBack == Spec => []TokenReadsBack
<1>1. Init => ReadInv
  BY DEF Init, ReadInv, Stages, Idle
<1>2. ReadInv => TokenReadsBack
  BY DEF ReadInv, TokenReadsBack, IsBack, Idle
<1> QED
  BY <1>1, <1>2, ReadStep, PTL DEF Spec
================================================================================
