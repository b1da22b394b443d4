-------------------------- MODULE FnsvcListProofs --------------------------
(***************************************************************************)
(* Machine-checked proofs about fnsvc_list_directory(): for every finite   *)
(* set of names smaller than 2^16, every buffer size up to FNCTL_MAX_DATA, *)
(* and any number of concurrent insertions and removals.                   *)
(***************************************************************************)
EXTENDS FnsvcListRefinement, FiniteSetTheorems, TLAPS

USE CallAssumption, ListAssumption
USE DEF CallAssumption, ListAssumption, MaxData, OK, HeaderLen, NoRet,
        FNSVC_ERR_NONE, FNSVC_ERR_INVALID_ARG, FNSVC_ERR_REQUEST_TOO_LARGE,
        FNSVC_ERR_TRANSPORT, FNSVC_ERR_STATUS, FNSVC_ERR_BAD_VERSION,
        FNSVC_ERR_SHORT_RESPONSE, FNSVC_ERR_ENTRIES_BOUNDS, FNSVC_ERR_ENTRY_BOUNDS

-----------------------------------------------------------------------------
(* Ranks in a finite set of numbers. *)

(* A rank is a number no larger than the set. *)
LEMMA RankType ==
  ASSUME NEW d, IsFiniteSet(d), NEW x
  PROVE  Rank(d, x) \in Nat /\ Rank(d, x) <= Cardinality(d)
<1> DEFINE T == {y \in d : y < x}
<1>1. IsFiniteSet(T) /\ Cardinality(T) <= Cardinality(d)
  BY FS_Subset
<1>2. Cardinality(T) \in Nat
  BY <1>1, FS_CardinalityType
<1> QED
  BY <1>1, <1>2 DEF Rank

(* A smaller name has no larger rank. *)
LEMMA RankMonotone ==
  ASSUME NEW d \in SUBSET Nat, IsFiniteSet(d), NEW x \in Nat, NEW y \in Nat, x <= y
  PROVE  Rank(d, x) <= Rank(d, y)
<1> DEFINE S == {z \in d : z < x}
           T == {z \in d : z < y}
<1>1. ASSUME NEW z \in d, z < x PROVE z < y
  <2>1. z \in Nat
    OBVIOUS
  <2> QED
    BY <1>1, <2>1
<1>2. IsFiniteSet(T) /\ S \in SUBSET T
  BY <1>1, FS_Subset
<1>3. Cardinality(S) <= Cardinality(T)
  BY <1>2, FS_Subset
<1> QED
  BY <1>3 DEF Rank

(* An entry of the set ranks strictly below every larger name. *)
LEMMA RankIncreases ==
  ASSUME NEW d \in SUBSET Nat, IsFiniteSet(d), NEW x \in d, NEW y \in Nat, x < y
  PROVE  Rank(d, x) < Rank(d, y)
<1> DEFINE S == {z \in d : z < x}
           T == {z \in d : z < y}
<1>1. S \in SUBSET T /\ x \in T /\ x \notin S
  <2>1. ASSUME NEW z \in d, z < x PROVE z < y
    <3>1. z \in Nat /\ x \in Nat
      OBVIOUS
    <3> QED
      BY <2>1, <3>1
  <2>2. ~(x < x)
    <3>1. x \in Nat
      OBVIOUS
    <3> QED
      BY <3>1
  <2> QED
    BY <2>1, <2>2
<1>2. IsFiniteSet(T) /\ IsFiniteSet(S)
  BY FS_Subset
<1>3. Cardinality(S) <= Cardinality(T) /\ (Cardinality(T) = Cardinality(S) => T = S)
  BY <1>1, <1>2, FS_Subset
<1>4. Cardinality(S) \in Nat /\ Cardinality(T) \in Nat
  BY <1>2, FS_CardinalityType
<1>5. Cardinality(S) < Cardinality(T)
  BY <1>1, <1>3, <1>4
<1> QED
  BY <1>5 DEF Rank

(* Ranks in order are those of names in order. *)
LEMMA RankReflects ==
  ASSUME NEW d \in SUBSET Nat, IsFiniteSet(d), NEW x \in Nat, NEW y \in Nat,
         Rank(d, x) < Rank(d, y)
  PROVE  x < y
<1>1. Rank(d, x) \in Nat /\ Rank(d, y) \in Nat
  BY RankType
<1>2. CASE y <= x
  <2>1. Rank(d, y) <= Rank(d, x)
    BY <1>2, RankMonotone
  <2> QED
    BY <1>1, <2>1
<1> QED
  BY <1>2

(* An entry of the set has an index in it. *)
LEMMA RankIsIndex ==
  ASSUME NEW d \in SUBSET Nat, IsFiniteSet(d), NEW x \in d
  PROVE  Rank(d, x) < Cardinality(d)
<1> DEFINE S == {z \in d : z < x}
<1>1. S \in SUBSET d /\ x \notin S
  OBVIOUS
<1>2. IsFiniteSet(S)
  BY FS_Subset
<1>3. Cardinality(S) <= Cardinality(d) /\ (Cardinality(d) = Cardinality(S) => d = S)
  BY <1>1, FS_Subset
<1>4. Cardinality(S) \in Nat /\ Cardinality(d) \in Nat
  BY <1>2, FS_CardinalityType
<1>5. Cardinality(S) < Cardinality(d)
  BY <1>1, <1>3, <1>4
<1> QED
  BY <1>5 DEF Rank

(* Two entries of the set with one rank are one entry. *)
LEMMA RankInjective ==
  ASSUME NEW d \in SUBSET Nat, IsFiniteSet(d), NEW x \in d, NEW y \in d,
         Rank(d, x) = Rank(d, y)
  PROVE  x = y
<1>1. Rank(d, x) \in Nat /\ Rank(d, y) \in Nat
  BY RankType
<1>2. CASE x < y
  BY <1>1, <1>2, RankIncreases
<1>3. CASE y < x
  BY <1>1, <1>3, RankIncreases
<1> QED
  BY <1>2, <1>3

(* Adding z raises no rank but those of the names after z, and lowers none. *)
LEMMA RankAfterInsert ==
  ASSUME NEW d \in SUBSET Nat, IsFiniteSet(d), NEW z \in Nat, NEW x \in Nat
  PROVE  /\ Rank(d, x) <= Rank(d \cup {z}, x)
         /\ ~(z < x) => Rank(d \cup {z}, x) = Rank(d, x)
<1> DEFINE S == {y \in d : y < x}
           T == {y \in d \cup {z} : y < x}
<1>1. IsFiniteSet(d \cup {z})
  BY FS_AddElement
<1>2. IsFiniteSet(T)
  BY <1>1, FS_Subset
<1>3. S \in SUBSET T /\ (~(z < x) => S = T)
  OBVIOUS
<1>4. Cardinality(S) <= Cardinality(T)
  BY <1>2, <1>3, FS_Subset
<1>5. ~(z < x) => Cardinality(T) = Cardinality(S)
  BY <1>3
<1> QED
  BY <1>4, <1>5 DEF Rank

(* Removing z lowers no rank but those of the names after z, and raises none. *)
LEMMA RankAfterDelete ==
  ASSUME NEW d \in SUBSET Nat, IsFiniteSet(d), NEW z \in Nat, NEW x \in Nat
  PROVE  /\ Rank(d \ {z}, x) <= Rank(d, x)
         /\ ~(z < x) => Rank(d \ {z}, x) = Rank(d, x)
<1> DEFINE S == {y \in d \ {z} : y < x}
           T == {y \in d : y < x}
<1>1. IsFiniteSet(T)
  BY FS_Subset
<1>2. S \in SUBSET T /\ (~(z < x) => S = T)
  OBVIOUS
<1>3. Cardinality(S) <= Cardinality(T)
  BY <1>1, <1>2, FS_Subset
<1>4. ~(z < x) => Cardinality(S) = Cardinality(T)
  BY <1>2
<1> QED
  BY <1>3, <1>4 DEF Rank

-----------------------------------------------------------------------------
(* Replies. *)

(* A sequence is a function on an initial interval of the naturals. *)
LEMMA SeqDef == \A S : Seq(S) = UNION {[1..n -> S] : n \in Nat}
  OBVIOUS

(* What is known of a reply that passed the header's checks. *)
Listed(r, d, s) ==
  /\ r.names \in Seq(Names)
  /\ \A i \in 1..Len(r.names) : r.names[i] \in d /\ Rank(d, r.names[i]) = s + i - 1
  /\ r.more \in BOOLEAN /\ r.compact \in BOOLEAN
  /\ ~r.more => s + Len(r.names) >= Cardinality(d)

(* A full page is the run of entries it was asked for, in a reply that fits. *)
LEMMA FullPage ==
  ASSUME NEW d \in SUBSET Names, NEW s \in Nat, NEW r \in FullReplies(d, s)
  PROVE  /\ Listed(r, d, s)
         /\ r.status = OK /\ r.version = 1 /\ r.len \in HeaderLen..IoBufSize
         /\ r = [status |-> OK, version |-> 1, len |-> r.len, more |-> r.more,
                 compact |-> r.compact, names |-> r.names, entriesLen |-> r.entriesLen]
<1>1. PICK p \in Pages(d, s), c \in CompactReplies, n \in 0..ListMaxPayload :
             r = Reply(HeaderLen + n, s + Len(p) < Cardinality(d), c, p, n)
  BY DEF FullReplies
<1>2. PICK m \in 0..Cardinality(d) : p \in [1..m -> d]
  BY DEF Pages
<1>3. IsFiniteSet(d)
  BY FS_Subset
<1>4. Cardinality(d) \in Nat
  BY <1>3, FS_CardinalityType
<1>5. p \in Seq(Names) /\ Len(p) = m /\ DOMAIN p = 1..m
  <2>1. m \in Nat /\ p \in [1..m -> Names]
    <3>1. m \in Nat
      BY <1>4
    <3>2. p \in [1..m -> d] /\ d \subseteq Names
      BY <1>2
    <3> QED
      BY <3>1, <3>2
  <2>2. p \in UNION {[1..k -> Names] : k \in Nat}
    BY <2>1, Zenon
  <2>3. p \in Seq(Names)
    BY <2>2, SeqDef, Zenon
  <2>4. DOMAIN p = 1..m
    BY <2>1
  <2>5. DOMAIN p = 1..Len(p) /\ Len(p) \in Nat
    BY <2>3
  <2> QED
    BY <2>1, <2>3, <2>4, <2>5
<1>6. \A i \in 1..Len(p) : p[i] \in d /\ Rank(d, p[i]) = s + i - 1
  BY <1>2, <1>5 DEF Pages
<1>7. HeaderLen + n \in HeaderLen..IoBufSize
  OBVIOUS
<1>8. /\ r.names = p /\ r.len = HeaderLen + n /\ r.status = OK /\ r.version = 1
      /\ r.more = (s + Len(p) < Cardinality(d)) /\ r.compact = c
      /\ r = [status |-> OK, version |-> 1, len |-> r.len, more |-> r.more,
              compact |-> r.compact, names |-> r.names, entriesLen |-> r.entriesLen]
  BY <1>1 DEF Reply
<1>9. r.more \in BOOLEAN /\ r.compact \in BOOLEAN
  <2>1. (s + Len(p) < Cardinality(d)) \in BOOLEAN
    OBVIOUS
  <2>2. c \in BOOLEAN
    BY Zenon
  <2> QED
    BY <1>8, <2>1, <2>2, Zenon
<1>10. ~r.more => s + Len(p) >= Cardinality(d)
  <2>1. (s + Len(p) < Cardinality(d)) \/ s + Len(p) >= Cardinality(d)
    BY <1>4, <1>5
  <2> QED
    BY <1>8, <2>1, Zenon
<1>11. Listed(r, d, s)
  BY <1>5, <1>6, <1>8, <1>9, <1>10 DEF Listed
<1> QED
  BY <1>7, <1>8, <1>11

(* So is every other reply the header's checks let pass, whatever else is wrong
   with it. *)
LEMMA PassedPage ==
  ASSUME NEW d \in SUBSET Names, NEW s \in Nat,
         NEW r \in FullReplies(d, s) \cup FaultyReplies(d, s)
  PROVE  /\ r.status \in {OK} \cup ErrStatuses
         /\ r.len \in 0..IoBufSize
         /\ HeaderError(r) \in 0..8
         /\ HeaderError(r) = FNSVC_ERR_NONE =>
              Listed(r, d, s) /\ r.status = OK /\ HeaderLen <= r.len
<1>0. HeaderError(r) \in 0..8
  BY DEF HeaderError
<1>1. CASE r \in FullReplies(d, s)
  BY <1>0, <1>1, FullPage
<1>2. CASE \E q \in FullReplies(d, s) : r \in Damaged(q)
  <2>1. PICK q \in FullReplies(d, s) : r \in Damaged(q)
    BY <1>2
  <2>2. /\ Listed(q, d, s) /\ q.status = OK /\ q.len \in HeaderLen..IoBufSize
        /\ q = [status |-> OK, version |-> 1, len |-> q.len, more |-> q.more,
                compact |-> q.compact, names |-> q.names, entriesLen |-> q.entriesLen]
    BY <2>1, FullPage
  <2>3. PICK n \in Cuts \cup {q.len}, m \in Promises \cup {q.entriesLen} :
               r = Cut(q, n, m) /\ r.len <= q.len
    BY <2>1 DEF Damaged
  <2>4. /\ r.status = OK /\ r.len = n /\ r.names = q.names /\ r.more = q.more
        /\ r.compact = q.compact
    BY <2>2, <2>3 DEF Cut
  <2>5. Listed(r, d, s)
    BY <2>2, <2>4 DEF Listed
  <2>6. HeaderError(r) = FNSVC_ERR_NONE => HeaderLen <= r.len
    BY <2>2, <2>3, <2>4 DEF HeaderError
  <2> QED
    BY <1>0, <2>2, <2>3, <2>4, <2>5, <2>6
<1>3. CASE \E q \in FullReplies(d, s) : r = [q EXCEPT !.version = 2]
  <2>1. PICK q \in FullReplies(d, s) : r = [q EXCEPT !.version = 2]
    BY <1>3
  <2>2. /\ q.status = OK /\ q.len \in HeaderLen..IoBufSize
        /\ q = [status |-> OK, version |-> 1, len |-> q.len, more |-> q.more,
                compact |-> q.compact, names |-> q.names, entriesLen |-> q.entriesLen]
    BY <2>1, FullPage
  <2>3. r.status = OK /\ r.len = q.len /\ r.version = 2
    BY <2>1, <2>2
  <2>4. HeaderError(r) = FNSVC_ERR_BAD_VERSION
    BY <2>2, <2>3 DEF HeaderError
  <2> QED
    BY <1>0, <2>2, <2>3, <2>4
<1>4. CASE \E e \in ErrStatuses : r = [NoReply EXCEPT !.status = e]
  <2>1. PICK e \in ErrStatuses : r = [NoReply EXCEPT !.status = e]
    BY <1>4
  <2>2. r.status = e /\ r.len = 0
    BY <2>1 DEF NoReply, Reply
  <2>3. HeaderError(r) = FNSVC_ERR_STATUS
    BY <2>2 DEF HeaderError
  <2> QED
    BY <1>0, <2>2, <2>3
<1>5. CASE \E c \in CompactReplies : r = Reply(HeaderLen, TRUE, c, <<>>, 0)
  <2>1. PICK c \in CompactReplies : r = Reply(HeaderLen, TRUE, c, <<>>, 0)
    BY <1>5
  <2>2. r.status = OK /\ r.len = HeaderLen /\ r.more = TRUE /\ r.compact = c /\ r.names = <<>>
    BY <2>1 DEF Reply
  <2>3. <<>> \in Seq(Names) /\ Len(<<>>) = 0
    OBVIOUS
  <2>4. Listed(r, d, s)
    <3>1. \A i \in 1..Len(r.names) : FALSE
      BY <2>2, <2>3
    <3>2. r.compact \in BOOLEAN /\ r.more
      BY <2>2, Zenon
    <3>3. r.more \in BOOLEAN
      BY <2>2, Zenon
    <3> QED
      BY <2>2, <2>3, <3>1, <3>2, <3>3 DEF Listed
  <2> QED
    BY <1>0, <2>2, <2>4
<1>6. r \in FaultyReplies(d, s) =>
        \/ \E q \in FullReplies(d, s) : r \in Damaged(q)
        \/ \E q \in FullReplies(d, s) : r = [q EXCEPT !.version = 2]
        \/ \E e \in ErrStatuses : r = [NoReply EXCEPT !.status = e]
        \/ \E c \in CompactReplies : r = Reply(HeaderLen, TRUE, c, <<>>, 0)
  <2> DEFINE A == UNION {Damaged(q) : q \in FullReplies(d, s)}
             B == {[q EXCEPT !.version = 2] : q \in FullReplies(d, s)}
             C == {[NoReply EXCEPT !.status = e] : e \in ErrStatuses}
             D == {Reply(HeaderLen, TRUE, c, <<>>, 0) : c \in CompactReplies}
  <2>1. FaultyReplies(d, s) = A \cup B \cup C \cup D
    BY Zenon DEF FaultyReplies
  <2>2. r \in A => \E q \in FullReplies(d, s) : r \in Damaged(q)
    BY Zenon
  <2>3. r \in B => \E q \in FullReplies(d, s) : r = [q EXCEPT !.version = 2]
    OBVIOUS
  <2>4. r \in C => \E e \in ErrStatuses : r = [NoReply EXCEPT !.status = e]
    OBVIOUS
  <2>5. r \in D => \E c \in CompactReplies : r = Reply(HeaderLen, TRUE, c, <<>>, 0)
    OBVIOUS
  <2> HIDE DEF A, B, C, D
  <2> QED
    BY <2>1, <2>2, <2>3, <2>4, <2>5
<1> QED
  BY <1>1, <1>2, <1>3, <1>4, <1>5, <1>6

-----------------------------------------------------------------------------
(* The inductive invariant. *)

LEMMA EmptySequence ==
  ASSUME NEW S
  PROVE  <<>> \in Seq(S) /\ Len(<<>>) = 0 /\ DOMAIN <<>> = {} /\ Range(<<>>) = {}
  BY DEF Range

(* Appending an element adds it to the range and leaves the others in place. *)
LEMMA AppendFacts ==
  ASSUME NEW S, NEW s \in Seq(S), NEW e \in S
  PROVE  /\ Append(s, e) \in Seq(S)
         /\ DOMAIN Append(s, e) = 1..(Len(s) + 1) /\ DOMAIN s = 1..Len(s)
         /\ \A i \in 1..Len(s) : Append(s, e)[i] = s[i]
         /\ Append(s, e)[Len(s) + 1] = e
         /\ Range(Append(s, e)) = Range(s) \cup {e}
<1>1. /\ Append(s, e) \in Seq(S) /\ Len(s) \in Nat
      /\ DOMAIN Append(s, e) = 1..(Len(s) + 1) /\ DOMAIN s = 1..Len(s)
      /\ \A i \in 1..Len(s) : Append(s, e)[i] = s[i]
      /\ Append(s, e)[Len(s) + 1] = e
  OBVIOUS
<1>2. \A i \in 1..(Len(s) + 1) : i \in 1..Len(s) \/ i = Len(s) + 1
  BY <1>1
<1>3. Len(s) + 1 \in 1..(Len(s) + 1) /\ 1..Len(s) \subseteq 1..(Len(s) + 1)
  BY <1>1
<1> QED
  BY <1>1, <1>2, <1>3 DEF Range

(* What the type invariant says of the directory and of the page. *)
LEMMA TypeFacts ==
  ASSUME ListTypeOK
  PROVE  /\ dir \in SUBSET Nat /\ IsFiniteSet(dir)
         /\ Cardinality(dir) \in Nat /\ Cardinality(Names) \in Nat
         /\ Cardinality(dir) <= Cardinality(Names)
         /\ start \in Nat /\ Len(resp.names) \in Nat /\ Reached \in Nat
         /\ DOMAIN resp.names = 1..Len(resp.names)
         /\ Range(resp.names) \subseteq Names
         /\ DOMAIN delivered = 1..Len(delivered) /\ Range(delivered) \subseteq Names
         /\ Pending \subseteq Range(resp.names)
<1>1. dir \in SUBSET Nat /\ dir \in SUBSET Names /\ IsFiniteSet(Names)
  BY DEF ListTypeOK
<1>2. IsFiniteSet(dir) /\ Cardinality(dir) <= Cardinality(Names)
  BY <1>1, FS_Subset
<1>3. Cardinality(dir) \in Nat /\ Cardinality(Names) \in Nat
  BY <1>1, <1>2, FS_CardinalityType
<1>4. resp.names \in Seq(Names) /\ delivered \in Seq(Names) /\ start \in Nat
      /\ idx \in 0..Len(resp.names)
  BY DEF ListTypeOK
<1>5. /\ Len(resp.names) \in Nat /\ DOMAIN resp.names = 1..Len(resp.names)
      /\ DOMAIN delivered = 1..Len(delivered)
      /\ \A i \in DOMAIN resp.names : resp.names[i] \in Names
      /\ \A i \in DOMAIN delivered : delivered[i] \in Names
  BY <1>4
<1>6. \A k \in (idx + 1)..Len(resp.names) : k \in DOMAIN resp.names
  BY <1>4, <1>5
<1> QED
  BY <1>1, <1>2, <1>3, <1>4, <1>5, <1>6 DEF Range, Pending, Reached

LEMMA NoReplyFacts ==
  /\ NoReply.names = <<>> /\ NoReply.len = 0
  /\ NoReply.more \in BOOLEAN /\ NoReply.compact \in BOOLEAN
<1>1. /\ NoReply.names = <<>> /\ NoReply.len = 0
      /\ NoReply.more = FALSE /\ NoReply.compact = FALSE
  BY DEF NoReply, Reply
<1> QED
  BY <1>1, Zenon

(* The statics of a loaded program have their types. *)
LEMMA DiagInitType == DiagInit => DiagTypeOK
  BY DEF DiagInit, DiagTypeOK

(* The invariant holds before the first call. *)
LEMMA ListInitIInv == ListInit => ListIInv
<1> SUFFICES ASSUME ListInit PROVE ListIInv
  OBVIOUS
<1> USE DEF ListInit
<1>1. ListTypeOK
  <2>1. DiagTypeOK
    BY DiagInitType
  <2>2. 0 \in 0..(U16 - 1)
    <3>1. Cardinality(Names) \in Nat
      BY FS_CardinalityType
    <3> QED
      BY <3>1
  <2> QED
    BY <2>1, <2>2, EmptySequence, NoReplyFacts DEF ListTypeOK
<1>2. ParseWithinReply /\ NoPageInv /\ ~Active /\ CompleteUnlessDeleted
  BY DEF ParseWithinReply, NoPageInv, Active, CompleteUnlessDeleted
<1>3. OrderedUnlessInserted
  BY EmptySequence DEF OrderedUnlessInserted
<1> QED
  BY <1>1, <1>2, <1>3 DEF ListIInv

(* Every step that makes a call fail keeps the invariant. *)
LEMMA FailingReturn ==
  ASSUME ListIInv, Return(0), DiagTypeOK', UNCHANGED <<dir, delivered, ghosts>>
  PROVE  ListIInv'
<1> USE DEF Return, ghosts
<1>1. ListTypeOK'
  <2>1. ListTypeOK
    BY DEF ListIInv
  <2>2. 0 \in 0..(U16 - 1)
    <3>1. Cardinality(Names) \in Nat
      BY FS_CardinalityType
    <3> QED
      BY <3>1
  <2> QED
    BY <2>1, <2>2, EmptySequence, NoReplyFacts DEF ListTypeOK
<1>2. (ParseWithinReply /\ NoPageInv /\ ~Active /\ CompleteUnlessDeleted)'
  BY DEF ParseWithinReply, NoPageInv, Active, CompleteUnlessDeleted
<1>3. OrderedUnlessInserted'
  <2>1. OrderedUnlessInserted
    BY DEF ListIInv
  <2> QED
    BY <2>1 DEF OrderedUnlessInserted
<1> QED
  BY <1>1, <1>2, <1>3 DEF ListIInv

(* A call that is accepted starts with nothing given and nothing pending. *)
LEMMA ListCallIInv ==
  ASSUME ListIInv, NEW uri_len \in UriLens, NEW has_cb \in BOOLEAN,
         ListCall(uri_len, has_cb)
  PROVE  ListIInv'
<1> USE DEF ListCall
<1>0. ListTypeOK /\ NoPageInv
  BY DEF ListIInv
<1>1. DiagTypeOK'
  <2>1. DiagTypeOK
    BY <1>0 DEF ListTypeOK
  <2>2. \/ RefuseArgs(FNSVC_ERR_INVALID_ARG) \/ ResetDiag(FNSVC_ERR_REQUEST_TOO_LARGE)
        \/ ResetDiag(FNSVC_ERR_NONE)
    BY Zenon
  <2>3. CASE RefuseArgs(FNSVC_ERR_INVALID_ARG)
    BY <2>1, <2>3 DEF DiagTypeOK, RefuseArgs
  <2>4. CASE ResetDiag(FNSVC_ERR_REQUEST_TOO_LARGE) \/ ResetDiag(FNSVC_ERR_NONE)
    BY <2>4 DEF DiagTypeOK, ResetDiag
  <2> QED
    BY <2>2, <2>3, <2>4
<1>2. 0 \in 0..(U16 - 1) /\ Cardinality(Names) \in Nat
  BY FS_CardinalityType
<1>3. ListTypeOK' /\ pc' \in {"idle", "send", "overrun"} /\ resp' = NoReply /\ idx' = 0
      /\ start' = 0 /\ ret' # 1
  <2>1. /\ pc' \in {"idle", "send", "overrun"} /\ resp' = NoReply /\ idx' = 0 /\ start' = 0
        /\ ret' \in {0, NoRet} /\ pos' \in Nat
    BY <1>0 DEF Return, parser, NoPageInv, ListTypeOK
  <2> QED
    BY <1>0, <1>1, <1>2, <2>1, EmptySequence, NoReplyFacts DEF ListTypeOK
<1>4. (ParseWithinReply /\ NoPageInv /\ CompleteUnlessDeleted)'
  BY <1>3 DEF ParseWithinReply, NoPageInv, CompleteUnlessDeleted
<1>5. OrderedUnlessInserted'
  BY EmptySequence DEF OrderedUnlessInserted
<1>6. Pending' = {} /\ Reached' = 0
  BY <1>3, NoReplyFacts, EmptySequence DEF Pending, Reached
<1>7. (GhostInv /\ PageInv /\ OrderInv)'
  BY <1>2, <1>3, <1>6, NoReplyFacts, EmptySequence DEF GhostInv, PageInv, OrderInv
<1>8. CoverInv'
  <2>1. \A x \in dir : Rank(dir, x) >= 0
    BY <1>0, TypeFacts, RankType
  <2> QED
    BY <1>3, <1>6, <2>1 DEF CoverInv
<1> QED
  BY <1>3, <1>4, <1>5, <1>7, <1>8 DEF ListIInv

(* An exchange that fails ends the call. *)
LEMMA PageLostIInv ==
  ASSUME ListIInv, PageLost
  PROVE  ListIInv'
<1>1. DiagTypeOK'
  <2>1. DiagTypeOK
    BY DEF ListIInv, ListTypeOK
  <2>2. \A e \in RawErrors : e % 256 \in 0..255
    OBVIOUS
  <2> QED
    BY <2>1, <2>2 DEF PageLost, TransportFails, DiagTypeOK
<1> QED
  BY <1>1, FailingReturn DEF PageLost

(* A page that passes the header's checks is the run of entries asked for, so
   nothing before it was left out and nothing in it was given before. *)
LEMMA PageArrivesIInv ==
  ASSUME ListIInv, PageArrives
  PROVE  ListIInv'
<1>0. /\ ListTypeOK /\ NoPageInv /\ OrderedUnlessInserted
      /\ pc = "send" /\ GhostInv /\ PageInv /\ OrderInv /\ CoverInv
      /\ UNCHANGED <<dir, delivered, ghosts>>
  BY DEF ListIInv, Active, PageArrives
<1>1. /\ dir \in SUBSET Nat /\ dir \in SUBSET Names /\ IsFiniteSet(dir)
      /\ Cardinality(dir) \in Nat /\ Cardinality(Names) \in Nat
      /\ Cardinality(dir) <= Cardinality(Names) /\ start \in Nat
      /\ DOMAIN delivered = 1..Len(delivered) /\ Range(delivered) \subseteq Names
  BY <1>0, TypeFacts DEF ListTypeOK
<1>2. PICK r \in FullReplies(dir, start) \cup FaultyReplies(dir, start) :
        /\ ReplyArrives(r.status, r.len, HeaderError(r))
        /\ \/ HeaderError(r) # FNSVC_ERR_NONE /\ Return(0)
           \/ /\ HeaderError(r) = FNSVC_ERR_NONE
              /\ pc' = "parse" /\ resp' = r /\ pos' = HeaderLen /\ idx' = 0
              /\ UNCHANGED <<start, ret>>
  BY DEF PageArrives
<1>3. /\ r.status \in {OK} \cup ErrStatuses /\ r.len \in 0..IoBufSize
      /\ HeaderError(r) \in 0..8
      /\ HeaderError(r) = FNSVC_ERR_NONE =>
           Listed(r, dir, start) /\ r.status = OK /\ HeaderLen <= r.len
  BY <1>1, <1>2, PassedPage
<1>4. DiagTypeOK'
  <2>1. DiagTypeOK
    BY <1>0 DEF ListTypeOK
  <2> QED
    BY <1>2, <1>3, <2>1 DEF ReplyArrives, DiagTypeOK
<1>5. CASE HeaderError(r) # FNSVC_ERR_NONE
  BY <1>0, <1>2, <1>4, <1>5, FailingReturn
<1>6. CASE HeaderError(r) = FNSVC_ERR_NONE
  <2> DEFINE n == Len(r.names)
  <2>1. /\ Listed(r, dir, start) /\ HeaderLen <= r.len
        /\ pc' = "parse" /\ resp' = r /\ pos' = HeaderLen /\ idx' = 0
        /\ UNCHANGED <<start, ret>>
    BY <1>2, <1>3, <1>6
  <2>2. /\ r.names \in Seq(Names) /\ n \in Nat /\ DOMAIN r.names = 1..n
        /\ \A k \in 1..n : r.names[k] \in dir /\ Rank(dir, r.names[k]) = start + k - 1
    BY <2>1 DEF Listed
  <2>3. resp.names = <<>> /\ Pending = {} /\ Reached = start
    BY <1>0, <1>1, NoReplyFacts, EmptySequence DEF NoPageInv, Pending, Reached
  <2>4. Pending' = Range(r.names) /\ Reached' = start + n
    BY <2>1, <2>2 DEF Pending, Reached, Range
  <2>5. ListTypeOK'
    BY <1>0, <1>3, <1>4, <2>1, <2>2 DEF ListTypeOK, Listed, ghosts
  <2>6. ParseWithinReply' /\ NoPageInv' /\ OrderedUnlessInserted' /\ CompleteUnlessDeleted'
    BY <1>0, <2>1, <1>3 DEF ParseWithinReply, NoPageInv, OrderedUnlessInserted,
                            CompleteUnlessDeleted, ghosts
  <2>7. GhostInv'
    BY <1>0 DEF GhostInv, ghosts
  <2>8. PageInv'
    <3>1. Pending' \subseteq atCall \cup inserted
      BY <1>0, <2>2, <2>4 DEF GhostInv, Range
    <3>2. ASSUME NEW i \in 1..n, NEW k \in 1..n, i < k
          PROVE  r.names[i] < r.names[k]
      <4>1. Rank(dir, r.names[i]) < Rank(dir, r.names[k])
        BY <1>1, <2>2, <3>2
      <4>2. r.names[i] \in Nat /\ r.names[k] \in Nat
        BY <1>1, <2>2
      <4> QED
        BY <1>1, <4>1, <4>2, RankReflects
    <3>3. start + n <= Cardinality(Names)
      <4>1. CASE n = 0
        BY <1>0, <1>1, <2>3, <4>1 DEF PageInv
      <4>2. CASE n # 0
        <5>1. n \in 1..n
          BY <2>2, <4>2
        <5>2. r.names[n] \in dir /\ Rank(dir, r.names[n]) = start + n - 1
          BY <2>2, <5>1
        <5>3. Rank(dir, r.names[n]) < Cardinality(dir)
          BY <1>1, <5>2, RankIsIndex
        <5> QED
          BY <1>1, <2>2, <5>2, <5>3
      <4> QED
        BY <4>1, <4>2
    <3> QED
      BY <1>0, <2>1, <2>2, <2>4, <3>1, <3>2, <3>3 DEF PageInv, ghosts
  <2>9. OrderInv'
    <3>1. ASSUME NEW i \in DOMAIN delivered, NEW k \in 1..n
          PROVE  delivered[i] < r.names[k] \/ Shifted(delivered[i])
      <4>1. delivered[i] \in Range(delivered) /\ delivered[i] \in Nat
        BY <1>1 DEF Range
      <4>2. CASE Rank(dir, delivered[i]) < start
        <5>1. Rank(dir, delivered[i]) < Rank(dir, r.names[k]) /\ r.names[k] \in Nat
          <6>1. r.names[k] \in dir /\ Rank(dir, r.names[k]) = start + k - 1
            BY <2>2
          <6>2. Rank(dir, delivered[i]) \in Nat
            BY <1>1, RankType
          <6>3. k \in Nat /\ 1 <= k
            BY <2>2
          <6>4. r.names[k] \in Nat
            BY <1>1, <6>1
          <6> QED
            BY <1>1, <4>2, <6>1, <6>2, <6>3, <6>4
        <5>2. delivered[i] < r.names[k]
          BY <1>1, <4>1, <5>1, RankReflects
        <5> QED
          BY <5>2
      <4>3. Rank(dir, delivered[i]) < start \/ Shifted(delivered[i])
        BY <1>0, <2>3, <4>1 DEF OrderInv
      <4> QED
        BY <4>2, <4>3
    <3>2. ASSUME NEW x \in Range(delivered)
          PROVE  Rank(dir, x) < start + n \/ Shifted(x)
      <4>1. Rank(dir, x) < start \/ Shifted(x)
        BY <1>0, <2>3 DEF OrderInv
      <4>2. Rank(dir, x) \in Nat
        BY <1>1, RankType
      <4> QED
        BY <1>1, <2>2, <4>1, <4>2
    <3>3. ASSUME NEW x \in Range(r.names)
          PROVE  Rank(dir, x) < start + n
      <4>1. PICK k \in 1..n : x = r.names[k]
        BY <2>2 DEF Range
      <4> QED
        BY <1>1, <2>2, <4>1
    <3>4. \A x : Shifted(x)' <=> Shifted(x)
      BY <1>0 DEF Shifted, ghosts
    <3> QED
      BY <1>0, <2>1, <2>2, <2>4, <3>1, <3>2, <3>3, <3>4 DEF OrderInv, Range
  <2>10. CoverInv'
    <3> SUFFICES ASSUME NEW x \in atCall \ deleted
                 PROVE  \/ x \in Range(delivered) \cup Range(r.names)
                        \/ Skipped(x)
                        \/ Rank(dir, x) >= start + n /\ r.more
      BY <1>0, <2>1, <2>4 DEF CoverInv, Skipped, ghosts
    <3>1. x \in dir /\ x \in Nat /\ Rank(dir, x) \in Nat /\ Rank(dir, x) < Cardinality(dir)
      BY <1>0, <1>1, RankType, RankIsIndex DEF GhostInv
    <3>2. \/ x \in Range(delivered)
          \/ Skipped(x)
          \/ Rank(dir, x) >= start
      BY <1>0, <2>3 DEF CoverInv
    <3>3. CASE Rank(dir, x) >= start + n
      <4>1. r.more
        BY <1>1, <2>1, <2>2, <3>1, <3>3 DEF Listed
      <4> QED
        BY <3>3, <4>1
    <3>4. CASE Rank(dir, x) >= start /\ Rank(dir, x) < start + n
      <4> DEFINE k == Rank(dir, x) - start + 1
      <4>1. k \in 1..n /\ start + k - 1 = Rank(dir, x)
        BY <1>1, <2>2, <3>1, <3>4
      <4>2. r.names[k] \in dir /\ Rank(dir, r.names[k]) = Rank(dir, x)
        BY <2>2, <4>1
      <4>3. \A y \in dir : Rank(dir, y) = Rank(dir, x) => y = x
        BY <1>1, <3>1, RankInjective
      <4>4. r.names[k] = x
        BY <4>2, <4>3
      <4> QED
        BY <2>2, <4>1, <4>4 DEF Range
    <3> QED
      BY <1>1, <2>2, <3>1, <3>2, <3>3, <3>4
  <2> QED
    BY <2>5, <2>6, <2>7, <2>8, <2>9, <2>10 DEF ListIInv
<1> QED
  BY <1>5, <1>6

(* The callback gets the next pending name: it leaves the pending ones and
   joins the delivered ones. *)
LEMMA ParseEntryIInv ==
  ASSUME ListIInv, ParseEntry
  PROVE  ListIInv'
<1> DEFINE n == Len(resp.names)
           e == resp.names[idx + 1]
<1>0. /\ ListTypeOK /\ ParseWithinReply /\ NoPageInv /\ OrderedUnlessInserted
      /\ pc = "parse" /\ GhostInv /\ PageInv /\ OrderInv /\ CoverInv
      /\ idx < n /\ EntryFits
      /\ delivered' = Append(delivered, e)
      /\ pos' = pos + EntryLen(e, resp.compact) /\ idx' = idx + 1
      /\ UNCHANGED <<dir, pc, start, resp, ret, ghosts, diag>>
  BY DEF ListIInv, Active, ParseEntry
<1>1. /\ idx \in 0..n /\ n \in Nat /\ DOMAIN resp.names = 1..n /\ idx + 1 \in 1..n
      /\ Range(resp.names) \subseteq Names /\ delivered \in Seq(Names)
      /\ resp.names \in Seq(Names)
  BY <1>0, TypeFacts DEF ListTypeOK
<1>2. e \in Names /\ e \in Range(resp.names) /\ e \in Pending /\ NameLen[e] \in 0..255
  <2>1. e \in Names
    BY <1>1
  <2>2. idx + 1 \in DOMAIN resp.names /\ idx + 1 \in (idx + 1)..n
    BY <1>1
  <2>3. e \in Range(resp.names)
    BY <2>2, Zenon DEF Range
  <2>4. e \in Pending
    BY <2>2, Zenon DEF Pending
  <2> QED
    BY <2>1, <2>3, <2>4
<1>3. /\ delivered' \in Seq(Names) /\ Len(delivered) \in Nat
      /\ DOMAIN delivered' = 1..(Len(delivered) + 1) /\ DOMAIN delivered = 1..Len(delivered)
      /\ \A i \in DOMAIN delivered : delivered'[i] = delivered[i]
      /\ delivered'[Len(delivered) + 1] = e
      /\ Range(delivered') = Range(delivered) \cup {e}
  BY <1>0, <1>1, <1>2, AppendFacts
<1>4. Pending = Pending' \cup {e}
  <2>1. (idx + 1)..n = ((idx + 2)..n) \cup {idx + 1}
    BY <1>1
  <2>2. Pending' = {resp.names[k] : k \in (idx + 2)..n}
    BY <1>0, <1>1 DEF Pending
  <2>3. Pending = {resp.names[k] : k \in ((idx + 2)..n) \cup {idx + 1}}
    BY <2>1 DEF Pending
  <2>4. \A x : x \in {resp.names[k] : k \in ((idx + 2)..n) \cup {idx + 1}}
              <=> x \in {resp.names[k] : k \in (idx + 2)..n} \/ x = e
    BY Zenon
  <2> QED
    BY <2>2, <2>3, <2>4
<1>5. Reached' = Reached /\ \A x : (Shifted(x)' <=> Shifted(x)) /\ (Skipped(x)' <=> Skipped(x))
  BY <1>0 DEF Reached, Shifted, Skipped, ghosts
<1>6. HeaderLen <= pos' /\ pos' <= resp.len /\ pos' \in Nat
  <2>1. pos \in Nat /\ HeaderLen <= pos /\ resp.len \in 0..IoBufSize
    BY <1>0 DEF ListTypeOK, ParseWithinReply
  <2>4. NameLen[e] \in Nat /\ pos + 2 + NameLen[e] <= resp.len
    <3>1. NameLen[e] \in Nat
      BY <1>2
    <3>2. pos + 2 + NameLen[e] <= resp.len
      BY <1>0, Zenon DEF EntryFits
    <3> QED
      BY <3>1, <3>2
  <2>2. CASE resp.compact
    <3>1. EntryLen(e, resp.compact) = 2 + NameLen[e]
      BY <2>4, <2>2 DEF EntryLen
    <3>2. pos' = pos + (2 + NameLen[e])
      BY <1>0, <3>1
    <3> QED
      BY <2>1, <2>4, <3>2
  <2>3. CASE ~resp.compact
    <3>1. EntryLen(e, resp.compact) = 2 + NameLen[e] + 16
      BY <2>4, <2>3 DEF EntryLen
    <3>2. pos + 2 + NameLen[e] + 16 <= resp.len
      BY <1>0, <2>3 DEF EntryFits
    <3>3. pos' = pos + (2 + NameLen[e] + 16)
      BY <1>0, <3>1
    <3> QED
      BY <2>1, <2>4, <3>2, <3>3
  <2> QED
    BY <2>2, <2>3
<1>7. ListTypeOK'
  <2>1. DiagTypeOK'
    BY <1>0 DEF ListTypeOK, DiagTypeOK, diag
  <2> QED
    BY <1>0, <1>1, <1>3, <1>6, <2>1 DEF ListTypeOK, ghosts
<1>8. (ParseWithinReply /\ NoPageInv /\ CompleteUnlessDeleted)'
  BY <1>0, <1>6 DEF ParseWithinReply, NoPageInv, CompleteUnlessDeleted
<1>9. OrderedUnlessInserted'
  <2> SUFFICES ASSUME NEW i \in 1..(Len(delivered) + 1), NEW j \in 1..(Len(delivered) + 1),
                      i < j, delivered'[j] <= delivered'[i]
               PROVE  Shifted(delivered'[i])
    BY <1>0, <1>3 DEF OrderedUnlessInserted, Shifted, ghosts
  <2>1. i \in DOMAIN delivered /\ delivered'[i] = delivered[i] /\ delivered[i] \in Nat
    <3>1. i \in 1..Len(delivered)
      BY <1>3
    <3>2. delivered[i] \in Names
      BY <1>1, <3>1
    <3> QED
      BY <1>3, <3>1, <3>2
  <2>2. CASE j \in DOMAIN delivered
    BY <1>0, <1>3, <2>1, <2>2 DEF OrderedUnlessInserted, Shifted
  <2>3. CASE j = Len(delivered) + 1
    <3>1. delivered[i] < e \/ Shifted(delivered[i])
      BY <1>0, <1>2, <2>1 DEF OrderInv
    <3>2. e <= delivered[i] /\ e \in Nat
      BY <1>2, <1>3, <2>1, <2>3
    <3> QED
      BY <2>1, <3>1, <3>2
  <2> QED
    BY <1>3, <2>2, <2>3
<1>10. GhostInv' /\ PageInv'
  BY <1>0, <1>4, <1>5 DEF GhostInv, PageInv, ghosts
<1>11. OrderInv'
  <2>1. ASSUME NEW x \in Pending' PROVE e < x
    <3>1. PICK k \in (idx + 2)..n : x = resp.names[k]
      BY <1>0, <1>1 DEF Pending
    <3>2. k \in 1..n /\ idx + 1 < k
      BY <1>1
    <3> QED
      BY <1>0, <1>1, <3>1, <3>2 DEF PageInv
  <2>2. ASSUME NEW i \in DOMAIN delivered', NEW x \in Pending'
        PROVE  delivered'[i] < x \/ Shifted(delivered'[i])
    <3>1. CASE i \in DOMAIN delivered
      <4>1. x \in Pending
        BY <1>4
      <4> QED
        BY <1>0, <1>3, <3>1, <4>1 DEF OrderInv
    <3>2. CASE i = Len(delivered) + 1
      BY <1>3, <2>1, <3>2
    <3> QED
      BY <1>3, <3>1, <3>2
  <2>3. Range(delivered') \cup Range(resp'.names) = Range(delivered) \cup Range(resp.names)
    BY <1>0, <1>2, <1>3
  <2>4. \A x \in Range(delivered') \cup Range(resp'.names) :
           Rank(dir, x) < Reached \/ Shifted(x)
    BY <1>0, <2>3 DEF OrderInv
  <2> QED
    BY <1>0, <1>5, <2>2, <2>4 DEF OrderInv
<1>12. CoverInv'
  <2>1. Range(delivered') \cup Pending' = Range(delivered) \cup Pending
    BY <1>2, <1>3, <1>4
  <2> QED
    BY <1>0, <1>5, <2>1 DEF CoverInv, ghosts
<1> QED
  BY <1>7, <1>8, <1>9, <1>10, <1>11, <1>12 DEF ListIInv

(* An entry that does not fit ends the call. *)
LEMMA EntryOutOfBoundsIInv ==
  ASSUME ListIInv, EntryOutOfBounds
  PROVE  ListIInv'
<1>1. DiagTypeOK'
  BY DEF ListIInv, ListTypeOK, EntryOutOfBounds, RefuseArgs, DiagTypeOK
<1> QED
  BY <1>1, FailingReturn DEF EntryOutOfBounds

(* After the last entry nothing is pending: what has been given is everything
   on the last page, and the next page starts where this one ended. *)
LEMMA EndPageIInv ==
  ASSUME ListIInv, EndPage
  PROVE  ListIInv'
<1> DEFINE n == Len(resp.names)
<1>0. /\ ListTypeOK /\ OrderedUnlessInserted /\ pc = "parse"
      /\ GhostInv /\ PageInv /\ OrderInv /\ CoverInv
      /\ idx = n /\ UNCHANGED <<dir, delivered, ghosts>>
  BY DEF ListIInv, Active, EndPage
<1>1. n \in Nat /\ start \in Nat /\ Cardinality(Names) \in Nat
  BY <1>0, TypeFacts
<1>2. Pending = {}
  <2>1. (idx + 1)..n = {}
    BY <1>0, <1>1
  <2> QED
    BY <2>1 DEF Pending
<1>3. DiagTypeOK
  BY <1>0 DEF ListTypeOK
<1>4. CASE ~resp.more /\ Return(1) /\ UNCHANGED diag
  <2>1. ListTypeOK'
    <3>1. DiagTypeOK'
      BY <1>3, <1>4 DEF DiagTypeOK, diag
    <3>2. 0 \in 0..(U16 - 1)
      BY <1>1
    <3> QED
      BY <1>0, <1>4, <3>1, <3>2, EmptySequence, NoReplyFacts DEF ListTypeOK, Return, ghosts
  <2>2. (ParseWithinReply /\ NoPageInv /\ ~Active /\ OrderedUnlessInserted)'
    BY <1>0, <1>4 DEF ParseWithinReply, NoPageInv, Active, OrderedUnlessInserted, Return, ghosts
  <2>3. CompleteUnlessDeleted'
    <3>1. \A x \in atCall \ deleted : x \in Range(delivered) \/ Skipped(x)
      BY <1>0, <1>2, <1>4 DEF CoverInv
    <3> QED
      BY <1>0, <3>1 DEF CompleteUnlessDeleted, Skipped, ghosts
  <2> QED
    BY <2>1, <2>2, <2>3 DEF ListIInv
<1>5. CASE RefuseArgs(FNSVC_ERR_SHORT_RESPONSE) /\ Return(0)
  <2>1. DiagTypeOK'
    BY <1>3, <1>5 DEF DiagTypeOK, RefuseArgs
  <2> QED
    BY <1>0, <1>5, <2>1, FailingReturn
<1>6. CASE /\ pc' = "send" /\ start' = NextStart(n)
           /\ resp' = NoReply /\ pos' = 0 /\ idx' = 0 /\ UNCHANGED <<ret, diag>>
  <2>1. start' = start + n /\ start' \in 0..(U16 - 1)
    <3>1. start + n <= Cardinality(Names)
      BY <1>0 DEF PageInv, Reached
    <3>2. start + n \in 0..(U16 - 1)
      BY <1>1, <3>1
    <3>3. (start + n) % U16 = start + n
      BY <3>2
    <3> QED
      BY <1>6, <3>2, <3>3 DEF NextStart
  <2>2. Pending' = {} /\ Reached' = Reached /\ Range(resp'.names) = {} /\ DOMAIN resp'.names = {}
    BY <1>1, <1>6, <2>1, NoReplyFacts, EmptySequence DEF Pending, Reached
  <2>3. ListTypeOK'
    <3>1. DiagTypeOK'
      BY <1>3, <1>6 DEF DiagTypeOK, diag
    <3> QED
      BY <1>0, <1>6, <2>1, <3>1, EmptySequence, NoReplyFacts DEF ListTypeOK, ghosts
  <2>4. (ParseWithinReply /\ NoPageInv /\ OrderedUnlessInserted /\ CompleteUnlessDeleted)'
    BY <1>0, <1>6 DEF ParseWithinReply, NoPageInv, OrderedUnlessInserted,
                      CompleteUnlessDeleted, ghosts
  <2>5. \A x : (Shifted(x)' <=> Shifted(x)) /\ (Skipped(x)' <=> Skipped(x))
    BY <1>0 DEF Shifted, Skipped, ghosts
  <2>6. GhostInv' /\ PageInv'
    BY <1>0, <2>2 DEF GhostInv, PageInv, ghosts
  <2>7. OrderInv' /\ CoverInv'
    BY <1>0, <1>2, <1>6, <2>2, <2>5 DEF OrderInv, CoverInv, ghosts
  <2> QED
    BY <2>3, <2>4, <2>6, <2>7 DEF ListIInv
<1> QED
  BY <1>4, <1>5, <1>6 DEF EndPage

(* A name added before x excuses x; one added elsewhere leaves x's index. *)
LEMMA DirInsertIInv ==
  ASSUME ListIInv, NEW z \in Names, DirInsert(z)
  PROVE  ListIInv'
<1>0. /\ ListTypeOK /\ ParseWithinReply /\ NoPageInv
      /\ OrderedUnlessInserted /\ CompleteUnlessDeleted
      /\ z \notin dir /\ dir' = dir \cup {z}
      /\ inserted' = IF pc = "idle" THEN inserted ELSE inserted \cup {z}
      /\ UNCHANGED <<pc, start, parser, delivered, ret, atCall, deleted, diag>>
  BY DEF ListIInv, DirInsert
<1>1. ListTypeOK'
  <2>1. DiagTypeOK'
    BY <1>0 DEF ListTypeOK, DiagTypeOK, diag
  <2> QED
    BY <1>0, <2>1 DEF ListTypeOK, parser
<1>2. (ParseWithinReply /\ NoPageInv /\ CompleteUnlessDeleted)'
  BY <1>0 DEF ParseWithinReply, NoPageInv, CompleteUnlessDeleted, parser
<1>3. OrderedUnlessInserted'
  <2>1. inserted \subseteq inserted'
    BY <1>0
  <2> QED
    BY <1>0, <2>1 DEF OrderedUnlessInserted
<1>4. ASSUME Active' PROVE (GhostInv /\ PageInv /\ OrderInv /\ CoverInv)'
  <2>0. GhostInv /\ PageInv /\ OrderInv /\ CoverInv /\ inserted' = inserted \cup {z}
    BY <1>0, <1>4 DEF ListIInv, Active
  <2>1. Pending' = Pending /\ Reached' = Reached
    BY <1>0 DEF Pending, Reached, parser
  <2>2. \A x : (Shifted(x)' <=> Shifted(x) \/ z < x) /\ (Skipped(x)' <=> Skipped(x))
    BY <1>0, <2>0 DEF Shifted, Skipped
  <2>3. /\ dir \in SUBSET Nat /\ IsFiniteSet(dir) /\ Reached \in Nat /\ z \in Nat
        /\ Range(delivered) \cup Range(resp.names) \subseteq Nat
        /\ atCall \ deleted \subseteq Nat
    BY <1>0, TypeFacts DEF ListTypeOK
  <2>4. ASSUME NEW x \in Nat
        PROVE  /\ Rank(dir, x) <= Rank(dir', x)
               /\ ~(z < x) => Rank(dir', x) = Rank(dir, x)
               /\ Rank(dir, x) \in Nat /\ Rank(dir', x) \in Nat
    <3>1. IsFiniteSet(dir \cup {z})
      BY <2>3, FS_AddElement
    <3> QED
      BY <1>0, <2>3, <3>1, RankAfterInsert, RankType
  <2>5. GhostInv' /\ PageInv'
    BY <1>0, <2>0, <2>1 DEF GhostInv, PageInv, parser
  <2>6. OrderInv'
    BY <1>0, <2>0, <2>1, <2>2, <2>3, <2>4 DEF OrderInv, parser
  <2>7. CoverInv'
    <3> SUFFICES ASSUME NEW x \in atCall \ deleted
                 PROVE  \/ x \in Range(delivered) \cup Pending
                        \/ Skipped(x)
                        \/ Rank(dir', x) >= Reached /\ (pc = "parse" => resp.more)
      BY <1>0, <2>1, <2>2 DEF CoverInv, parser
    <3>1. x \in Nat /\ Rank(dir, x) \in Nat /\ Rank(dir', x) \in Nat
          /\ Rank(dir, x) <= Rank(dir', x)
      BY <2>3, <2>4
    <3>2. CASE Rank(dir, x) >= Reached /\ (pc = "parse" => resp.more)
      BY <2>3, <3>1, <3>2
    <3> QED
      BY <2>0, <3>2 DEF CoverInv
  <2> QED
    BY <2>5, <2>6, <2>7
<1> QED
  BY <1>1, <1>2, <1>3, <1>4 DEF ListIInv

(* A name removed before x excuses x; one removed elsewhere leaves x's index. *)
LEMMA DirDeleteIInv ==
  ASSUME ListIInv, NEW z \in Names, DirDelete(z)
  PROVE  ListIInv'
<1>0. /\ ListTypeOK /\ ParseWithinReply /\ NoPageInv
      /\ OrderedUnlessInserted /\ CompleteUnlessDeleted
      /\ z \in dir /\ dir' = dir \ {z}
      /\ deleted' = IF pc = "idle" THEN deleted ELSE deleted \cup {z}
      /\ UNCHANGED <<pc, start, parser, delivered, ret, atCall, inserted, diag>>
  BY DEF ListIInv, DirDelete
<1>1. ListTypeOK'
  <2>1. DiagTypeOK'
    BY <1>0 DEF ListTypeOK, DiagTypeOK, diag
  <2> QED
    BY <1>0, <2>1 DEF ListTypeOK, parser
<1>2. (ParseWithinReply /\ NoPageInv /\ OrderedUnlessInserted)'
  BY <1>0 DEF ParseWithinReply, NoPageInv, OrderedUnlessInserted, parser
<1>3. CompleteUnlessDeleted'
  BY <1>0 DEF CompleteUnlessDeleted
<1>4. ASSUME Active' PROVE (GhostInv /\ PageInv /\ OrderInv /\ CoverInv)'
  <2>0. GhostInv /\ PageInv /\ OrderInv /\ CoverInv /\ deleted' = deleted \cup {z}
    BY <1>0, <1>4 DEF ListIInv, Active
  <2>1. Pending' = Pending /\ Reached' = Reached
    BY <1>0 DEF Pending, Reached, parser
  <2>2. \A x : (Shifted(x)' <=> Shifted(x)) /\ (Skipped(x)' <=> Skipped(x) \/ z < x)
    BY <1>0, <2>0 DEF Shifted, Skipped
  <2>3. /\ dir \in SUBSET Nat /\ IsFiniteSet(dir) /\ Reached \in Nat /\ z \in Nat
        /\ Range(delivered) \cup Range(resp.names) \subseteq Nat
        /\ atCall \ deleted \subseteq Nat
    BY <1>0, TypeFacts DEF ListTypeOK
  <2>4. ASSUME NEW x \in Nat
        PROVE  /\ Rank(dir', x) <= Rank(dir, x)
               /\ ~(z < x) => Rank(dir', x) = Rank(dir, x)
               /\ Rank(dir, x) \in Nat /\ Rank(dir', x) \in Nat
    <3>1. IsFiniteSet(dir \ {z})
      BY <2>3, FS_RemoveElement
    <3> QED
      BY <1>0, <2>3, <3>1, RankAfterDelete, RankType
  <2>5. GhostInv' /\ PageInv'
    BY <1>0, <2>0, <2>1 DEF GhostInv, PageInv, parser
  <2>6. OrderInv'
    <3>1. ASSUME NEW x \in Range(delivered) \cup Range(resp.names)
          PROVE  Rank(dir', x) < Reached \/ Shifted(x)
      <4>1. x \in Nat /\ Rank(dir, x) \in Nat /\ Rank(dir', x) \in Nat
            /\ Rank(dir', x) <= Rank(dir, x)
        BY <2>3, <2>4
      <4>2. CASE Rank(dir, x) < Reached
        BY <2>3, <4>1, <4>2
      <4> QED
        BY <2>0, <4>2 DEF OrderInv
    <3> QED
      BY <1>0, <2>0, <2>1, <2>2, <3>1 DEF OrderInv, parser
  <2>7. CoverInv'
    BY <1>0, <2>0, <2>1, <2>2, <2>3, <2>4 DEF CoverInv, parser
  <2> QED
    BY <2>5, <2>6, <2>7
<1> QED
  BY <1>1, <1>2, <1>3, <1>4 DEF ListIInv

LEMMA ListNextIInv == ListIInv /\ [ListNext]_listVars => ListIInv'
<1> SUFFICES ASSUME ListIInv, [ListNext]_listVars PROVE ListIInv'
  OBVIOUS
<1>1. ASSUME NEW n \in UriLens, NEW has_cb \in BOOLEAN, ListCall(n, has_cb)
      PROVE  ListIInv'
  BY <1>1, ListCallIInv
<1>2. CASE PageLost
  BY <1>2, PageLostIInv
<1>3. CASE PageArrives
  BY <1>3, PageArrivesIInv
<1>4. CASE ParseEntry
  BY <1>4, ParseEntryIInv
<1>5. CASE EntryOutOfBounds
  BY <1>5, EntryOutOfBoundsIInv
<1>6. CASE EndPage
  BY <1>6, EndPageIInv
<1>7. ASSUME NEW x \in Names, DirInsert(x) PROVE ListIInv'
  BY <1>7, DirInsertIInv
<1>8. ASSUME NEW x \in Names, DirDelete(x) PROVE ListIInv'
  BY <1>8, DirDeleteIInv
<1>9. CASE UNCHANGED listVars
  <2>1. UNCHANGED <<dir, pc, start, resp, pos, idx, delivered, ret, atCall, inserted, deleted,
                    last_error, last_status, last_raw_error, last_response_len>>
    BY <1>9 DEF listVars, parser, ghosts, diag
  <2>2. Pending' = Pending /\ Reached' = Reached /\ (Active' <=> Active)
    BY <2>1 DEF Pending, Reached, Active
  <2>3. ListTypeOK'
    BY <2>1 DEF ListIInv, ListTypeOK, DiagTypeOK
  <2>4. (ParseWithinReply /\ OrderedUnlessInserted /\ CompleteUnlessDeleted /\ NoPageInv)'
    BY <2>1 DEF ListIInv, ParseWithinReply, OrderedUnlessInserted, CompleteUnlessDeleted, NoPageInv
  <2>5. ASSUME Active' PROVE (GhostInv /\ PageInv /\ OrderInv /\ CoverInv)'
    <3>1. GhostInv /\ PageInv /\ OrderInv /\ CoverInv
      BY <2>2, <2>5 DEF ListIInv
    <3>2. GhostInv' /\ PageInv'
      BY <2>1, <2>2, <3>1 DEF GhostInv, PageInv
    <3>3. OrderInv' /\ CoverInv'
      BY <2>1, <2>2, <3>1 DEF OrderInv, CoverInv, Shifted, Skipped
    <3> QED
      BY <3>2, <3>3
  <2> QED
    BY <2>3, <2>4, <2>5 DEF ListIInv
<1> QED
  BY <1>1, <1>2, <1>3, <1>4, <1>5, <1>6, <1>7, <1>8, <1>9 DEF ListNext, ListProgress

-----------------------------------------------------------------------------
(* Theorems. *)

LEMMA ListInvariance == ListSpec => []ListIInv
  BY ListInitIInv, ListNextIInv, PTL DEF ListSpec

(* Every variable keeps its type; in particular `start` stays a uint16_t and
   the parser's index stays within the page, for every directory and reply. *)
THEOREM ListTypeCorrect == ListSpec => []ListTypeOK
<1>1. ListIInv => ListTypeOK
  BY DEF ListIInv
<1> QED
  BY <1>1, ListInvariance, PTL

(* The parser never moves past the bytes the service sent. *)
THEOREM ListParseSafe == ListSpec => []ParseWithinReply
<1>1. ListIInv => ParseWithinReply
  BY DEF ListIInv
<1> QED
  BY <1>1, ListInvariance, PTL

(* A repeated or out-of-order name is explained by an insertion before it. *)
THEOREM ListOrdered == ListSpec => []OrderedUnlessInserted
<1>1. ListIInv => OrderedUnlessInserted
  BY DEF ListIInv
<1> QED
  BY <1>1, ListInvariance, PTL

(* A name that stayed and was left out is explained by a removal before it. *)
THEOREM ListComplete == ListSpec => []CompleteUnlessDeleted
<1>1. ListIInv => CompleteUnlessDeleted
  BY DEF ListIInv
<1> QED
  BY <1>1, ListInvariance, PTL

-----------------------------------------------------------------------------
(* Diagnostics.  They are left alone by the return that ends a listing, so   *)
(* the page being parsed must already have cleared them.                     *)

ParseDiagInv == pc = "parse" => /\ last_error = FNSVC_ERR_NONE /\ last_status = OK
                                 /\ last_raw_error = 0
DiagIInv == DiagnosticsAgree /\ ParseDiagInv

(* What a reply's header is blamed for agrees with its status. *)
LEMMA HeaderErrorAgrees ==
  ASSUME NEW r
  PROVE  LET e == HeaderError(r)
         IN  /\ e = FNSVC_ERR_NONE => r.status = OK
             /\ e = FNSVC_ERR_STATUS => r.status # OK
             /\ e \in FNSVC_ERR_BAD_VERSION..FNSVC_ERR_ENTRY_BOUNDS => r.status = OK
<1>1. CASE r.status # OK
  BY <1>1 DEF HeaderError
<1>2. CASE r.status = OK
  <2>1. HeaderError(r) # FNSVC_ERR_STATUS
    BY <1>2 DEF HeaderError
  <2> QED BY <1>2, <2>1
<1> QED BY <1>1, <1>2

LEMMA DiagNext == DiagIInv /\ [ListNext]_listVars => DiagIInv'
<1> SUFFICES ASSUME DiagIInv, [ListNext]_listVars PROVE DiagIInv'
  OBVIOUS
<1> USE DEF DiagIInv, DiagnosticsAgree, ParseDiagInv
<1>1. ASSUME NEW n \in UriLens, NEW has_cb \in BOOLEAN, ListCall(n, has_cb)
      PROVE  DiagIInv'
  BY <1>1 DEF ListCall, RefuseArgs, ResetDiag, Return
<1>2. CASE PageLost
  BY <1>2 DEF PageLost, TransportFails, Return
<1>3. CASE PageArrives
  <2>1. PICK r : /\ ReplyArrives(r.status, r.len, HeaderError(r))
                 /\ \/ HeaderError(r) # FNSVC_ERR_NONE /\ Return(0)
                    \/ HeaderError(r) = FNSVC_ERR_NONE /\ pc' = "parse"
    BY <1>3, Zenon DEF PageArrives
  <2>2. last_error' = HeaderError(r) /\ last_status' = r.status /\ last_raw_error' = 0
    BY <2>1 DEF ReplyArrives
  <2> QED BY <2>1, <2>2, HeaderErrorAgrees DEF Return
<1>4. CASE ParseEntry
  BY <1>4 DEF ParseEntry, diag
<1>5. CASE EntryOutOfBounds
  BY <1>5 DEF EntryOutOfBounds, RefuseArgs, Return
<1>6. CASE EndPage
  BY <1>6 DEF EndPage, RefuseArgs, Return, diag
<1>7. ASSUME NEW x \in Names, DirInsert(x) \/ DirDelete(x) PROVE DiagIInv'
  BY <1>7 DEF DirInsert, DirDelete, diag
<1>8. CASE UNCHANGED listVars
  BY <1>8 DEF listVars, diag
<1> QED
  BY <1>1, <1>2, <1>3, <1>4, <1>5, <1>6, <1>7, <1>8 DEF ListNext, ListProgress

(* fnsvc_list_directory(): after a call, the result and the error the caller
   reads agree, a refused status is named only when one was received, and a
   reply blamed for its content is one that arrived with an OK status, whatever
   exchange of the listing it was that failed. *)
THEOREM ListDiagnosed == ListSpec => []DiagnosticsAgree
<1>1. ListInit => DiagIInv
  BY DEF ListInit, DiagInit, DiagIInv, DiagnosticsAgree, ParseDiagInv
<1>2. DiagIInv => DiagnosticsAgree
  BY DEF DiagIInv
<1> QED
  BY <1>1, <1>2, DiagNext, PTL DEF ListSpec

-----------------------------------------------------------------------------
(* Refinement: every step of the paged listing is a step of DirListing. *)

LEMMA ListInitRefines == ListInit => Listing!Init
  BY DEF ListInit, Listing!Init

LEMMA ListStepRefines == ListIInv /\ [ListNext]_listVars => [Listing!Next]_Listing!vars
<1> SUFFICES ASSUME ListIInv, [ListNext]_listVars PROVE [Listing!Next]_Listing!vars
  OBVIOUS
<1> USE DEF ghosts, parser
<1>1. ASSUME NEW n \in UriLens, NEW has_cb \in BOOLEAN, ListCall(n, has_cb)
      PROVE  Listing!Begin
  <2>1. /\ pc = "idle" /\ delivered' = <<>> /\ UNCHANGED dir
        /\ atCall' = dir /\ inserted' = {} /\ deleted' = {}
        /\ \/ pc' = "idle" /\ ret' = 0
           \/ pc' \in {"send", "overrun"} /\ ret' = NoRet
    BY <1>1 DEF ListCall, Return
  <2>2. \/ (pc' # "idle") = TRUE /\ ret' = NoRet
        \/ (pc' # "idle") = FALSE /\ ret' = 0
    BY <2>1
  <2> QED
    BY <2>1, <2>2 DEF Listing!Begin
<1>2. ASSUME pc # "idle", Return(0), UNCHANGED <<dir, delivered, ghosts>>
      PROVE  Listing!End(0)
  <2>1. (pc' # "idle") = FALSE
    BY <1>2 DEF Return
  <2> QED
    BY <1>2, <2>1 DEF Listing!End, Return
<1>3. CASE PageLost
  BY <1>2, <1>3 DEF PageLost, Listing!Next
<1>4. CASE PageArrives
  <2>1. pc = "send" /\ UNCHANGED <<dir, delivered, ghosts>>
        /\ (Return(0) \/ (pc' = "parse" /\ UNCHANGED ret))
    BY <1>4 DEF PageArrives
  <2>2. CASE Return(0)
    BY <1>2, <2>1, <2>2 DEF Listing!Next
  <2>3. CASE pc' = "parse" /\ UNCHANGED ret
    <3>1. (pc' # "idle") = (pc # "idle")
      BY <2>1, <2>3
    <3> QED
      BY <2>1, <2>3, <3>1 DEF Listing!vars
  <2> QED
    BY <2>1, <2>2, <2>3
<1>5. CASE ParseEntry
  <2> DEFINE e == resp.names[idx + 1]
  <2>1. /\ pc = "parse" /\ idx < Len(resp.names) /\ delivered' = Append(delivered, e)
        /\ UNCHANGED <<dir, pc, ret, ghosts>>
        /\ ListTypeOK /\ GhostInv /\ PageInv /\ OrderInv
    BY <1>5 DEF ParseEntry, ListIInv, Active
  <2>2. e \in Pending
    <3>1. idx + 1 \in (idx + 1)..Len(resp.names)
      BY <2>1 DEF ListTypeOK
    <3> QED
      BY <3>1, Zenon DEF Pending
  <2>3. e \in Names
    BY <2>1, <2>2, TypeFacts
  <2>4. Listing!MayGive(e)
    BY <2>1, <2>2 DEF PageInv, OrderInv, Shifted, Listing!MayGive
  <2>5. pc # "idle" /\ (pc' # "idle") = (pc # "idle")
    BY <2>1
  <2>6. Listing!Give(e)
    BY <2>1, <2>4, <2>5 DEF Listing!Give
  <2> QED
    BY <2>3, <2>6 DEF Listing!Next
<1>6. CASE EntryOutOfBounds
  BY <1>2, <1>6 DEF EntryOutOfBounds, Listing!Next
<1>7. CASE EndPage
  <2>1. /\ pc = "parse" /\ UNCHANGED <<dir, delivered, ghosts>>
        /\ \/ Return(1)
           \/ Return(0)
           \/ pc' = "send" /\ UNCHANGED ret
    BY <1>7 DEF EndPage
  <2>2. CASE Return(1)
    <3>1. pc' = "idle" /\ ret' = 1 /\ (pc' # "idle") = FALSE /\ pc # "idle"
      BY <2>1, <2>2 DEF Return
    <3>2. CompleteUnlessDeleted'
      BY <1>7, EndPageIInv DEF ListIInv
    <3>3. Listing!Complete
      <4>1. \A x \in atCall' \ deleted' :
              x \in Range(delivered') \/ \E z \in deleted' : z < x
        BY <3>1, <3>2 DEF CompleteUnlessDeleted
      <4>2. delivered' = delivered /\ atCall' = atCall /\ deleted' = deleted
        BY <2>1
      <4> QED
        BY <4>1, <4>2 DEF Listing!Complete, Listing!Range, Range
    <3>4. Listing!End(1)
      BY <2>1, <3>1, <3>3 DEF Listing!End
    <3> QED
      BY <3>4 DEF Listing!Next
  <2>3. CASE Return(0)
    BY <1>2, <2>1, <2>3 DEF Listing!Next
  <2>4. CASE pc' = "send" /\ UNCHANGED ret
    <3>1. (pc' # "idle") = (pc # "idle")
      BY <2>1, <2>4
    <3> QED
      BY <2>1, <2>4, <3>1 DEF Listing!vars
  <2> QED
    BY <2>1, <2>2, <2>3, <2>4
<1>8. ASSUME NEW x \in Names, DirInsert(x)
      PROVE  Listing!Insert(x)
  <2>1. (pc' # "idle") = (pc # "idle")
    BY <1>8 DEF DirInsert
  <2>2. inserted' = IF pc # "idle" THEN inserted \cup {x} ELSE inserted
    BY <1>8 DEF DirInsert
  <2> QED
    BY <1>8, <2>1, <2>2 DEF DirInsert, Listing!Insert
<1>9. ASSUME NEW x \in Names, DirDelete(x)
      PROVE  Listing!Delete(x)
  <2>1. (pc' # "idle") = (pc # "idle")
    BY <1>9 DEF DirDelete
  <2>2. deleted' = IF pc # "idle" THEN deleted \cup {x} ELSE deleted
    BY <1>9 DEF DirDelete
  <2> QED
    BY <1>9, <2>1, <2>2 DEF DirDelete, Listing!Delete
<1>10. CASE UNCHANGED listVars
  <2>1. (pc' # "idle") = (pc # "idle")
    BY <1>10 DEF listVars
  <2> QED
    BY <1>10, <2>1 DEF listVars, Listing!vars
<1> QED
  BY <1>1, <1>3, <1>4, <1>5, <1>6, <1>7, <1>8, <1>9, <1>10
     DEF ListNext, ListProgress, Listing!Next

(* The paged listing implements the directory listing: the safety half of
   ImplementsListing, which has no liveness half. *)
THEOREM ListRefinement == ListSpec => ImplementsListing
  BY ListInitRefines, ListStepRefines, ListInvariance, PTL
     DEF ListSpec, ImplementsListing, Listing!Spec
=============================================================================
