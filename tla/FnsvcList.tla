------------------------------ MODULE FnsvcList ------------------------------
(***************************************************************************)
(* fnsvc_list_directory() (src/common/fnsvc.c) against a directory that    *)
(* other clients of the file service change while the listing is going on. *)
(*                                                                         *)
(* The client asks for one page after another, each page starting at the   *)
(* INDEX the previous one ended at, and hands every entry of a page to the *)
(* caller's callback as it parses it.  The directory may change between    *)
(* two pages, and a reply may be lost, cut short or refused.               *)
(*                                                                         *)
(* Names are numbers in the order FLAG_SORT_BY_NAME asks the service for;  *)
(* an entry's flags, size and times are left out.                          *)
(***************************************************************************)
EXTENDS FnsvcCall, Sequences, FiniteSets, Functions

CONSTANTS Names,          \* the names the directory may hold
          NameLen,          \* the length of each, in bytes
          ListNameMax,      \* FNSVC_LIST_NAME_MAX
          ListMaxPayload,   \* FNSVC_LIST_MAX_PAYLOAD
          UriLens,          \* lengths of the URI argument
          Cuts,             \* lengths a reply may be cut to
          Promises,         \* lengths a header may give its entries, whatever it brings
          CompactReplies    \* the values the service gives RESP_COMPACT

ASSUME ListAssumption ==
  /\ Names \subseteq Nat /\ IsFiniteSet(Names)
  /\ NameLen \in [Names -> 0..255]
  /\ ListNameMax \in Nat /\ ListMaxPayload \in Nat
  /\ 10 + ListMaxPayload <= IoBufSize
  /\ Cardinality(Names) < U16
  /\ UriLens \subseteq Nat /\ Cuts \subseteq Nat /\ Promises \subseteq 0..(U16 - 1)
  /\ CompactReplies \subseteq BOOLEAN

ListRequestOverhead == 6          \* FNSVC_LIST_REQUEST_OVERHEAD
HeaderLen == 10
NoRet == 2                        \* no call has returned yet

VARIABLES
  dir,          \* the directory, at the service
  pc,           \* where fnsvc_list_directory() is: idle, send, parse or overrun
  start,        \* the index the next page starts at
  resp,         \* what resp_buf holds while a page is parsed
  pos, idx,     \* the parser's position in resp_buf and the entry it is at
  delivered,    \* the names the callback has been given in this call
  ret,          \* what the call returned
  atCall,       \* ghost: the directory when the call began
  inserted,     \* ghost: the names added since then
  deleted       \* ghost: the names removed since then

ghosts == <<atCall, inserted, deleted>>
parser == <<resp, pos, idx>>
listVars == <<dir, pc, start, parser, delivered, ret, ghosts, diag>>

-----------------------------------------------------------------------------
(* The service's answers. *)

(* How many names of d sort before x: the index x has in a sorted listing. *)
Rank(d, x) == Cardinality({y \in d : y < x})

(* The runs of consecutive entries of d that begin at index s. *)
Pages(d, s) == {p \in UNION {[1..n -> d] : n \in 0..Cardinality(d)} :
                  \A i \in DOMAIN p : Rank(d, p[i]) = s + i - 1}

(* Two bytes of flags and length, the name, and size and times unless compact. *)
EntryLen(x, compact) == 2 + NameLen[x] + IF compact THEN 0 ELSE 16

EntriesLen(p, compact) == SumFunction([i \in DOMAIN p |-> EntryLen(p[i], compact)])

Reply(len, more, compact, names, entriesLen) ==
  [status |-> OK, version |-> 1, len |-> len, more |-> more,
   compact |-> compact, names |-> names, entriesLen |-> entriesLen]

NoReply == Reply(0, FALSE, FALSE, <<>>, 0)

(* A page the service may answer: it stops where it likes, but not before it
   has listed an entry while there is one, and within the payload asked for. *)
FullReplies(d, s) ==
  {r \in {Reply(HeaderLen + n, s + Len(p) < Cardinality(d), c, p, n) :
            p \in Pages(d, s), c \in CompactReplies, n \in 0..ListMaxPayload} :
     /\ r.entriesLen = EntriesLen(r.names, r.compact)
     /\ r.names = <<>> => s >= Cardinality(d)}

(* r with bytes missing at its end, and with a length of its entries that may
   have nothing to do with them. *)
Cut(r, n, m) == [r EXCEPT !.len = n, !.entriesLen = m]
Damaged(r) == {q \in {Cut(r, n, m) : n \in Cuts \cup {r.len}, m \in Promises \cup {r.entriesLen}} :
                 q.len <= r.len}

(* The answers that have something wrong: bytes missing, a length that is not
   that of what follows, an unknown version, a status, or a page that promises
   more and brings nothing. *)
FaultyReplies(d, s) ==
     (UNION {Damaged(r) : r \in FullReplies(d, s)})
  \cup {[r EXCEPT !.version = 2] : r \in FullReplies(d, s)}
  \cup {[NoReply EXCEPT !.status = e] : e \in ErrStatuses}
  \cup {Reply(HeaderLen, TRUE, c, <<>>, 0) : c \in CompactReplies}

-----------------------------------------------------------------------------
(* The client. *)

ListInit == /\ dir \in SUBSET Names
            /\ pc = "idle" /\ start = 0 /\ resp = NoReply /\ pos = 0 /\ idx = 0
            /\ delivered = <<>> /\ ret = NoRet
            /\ atCall = {} /\ inserted = {} /\ deleted = {}
            /\ DiagInit

(* The call returns v; its locals and the reply it was parsing are gone. *)
Return(v) == /\ pc' = "idle" /\ ret' = v
             /\ start' = 0 /\ resp' = NoReply /\ pos' = 0 /\ idx' = 0

(* Version, the URI after its length, start, payload size and flags. *)
RequestLen(uri_len) == 1 + 2 + uri_len + 2 + 2 + 1

(* fnsvc_list_directory() up to its loop, with the test and the building of the
   request at the loop's head, whose outcome no iteration changes.  The test lets
   through URIs whose request is longer than req_buf: what a call does that has
   written past its end is undefined, and is not followed. *)
ListCall(uri_len, has_cb) ==
  /\ pc = "idle"
  /\ delivered' = <<>>
  /\ atCall' = dir /\ inserted' = {} /\ deleted' = {}
  /\ \/ /\ ~has_cb
        /\ RefuseArgs(FNSVC_ERR_INVALID_ARG) /\ Return(0)
     \/ /\ has_cb /\ uri_len + ListRequestOverhead > IoBufSize
        /\ ResetDiag(FNSVC_ERR_REQUEST_TOO_LARGE) /\ Return(0)
     \/ /\ has_cb /\ uri_len + ListRequestOverhead <= IoBufSize
        /\ ResetDiag(FNSVC_ERR_NONE)
        /\ pc' = IF RequestLen(uri_len) <= IoBufSize THEN "send" ELSE "overrun"
        /\ start' = 0 /\ ret' = NoRet
        /\ UNCHANGED parser
  /\ UNCHANGED dir

(* A slip: the length is looked at before the status. *)
LengthFirstHeaderError(r) ==
  CASE r.len < HeaderLen                -> FNSVC_ERR_SHORT_RESPONSE
    [] r.len >= HeaderLen /\ r.status # OK -> FNSVC_ERR_STATUS
    [] OTHER                            -> FNSVC_ERR_NONE

(* What the checks on a reply's header find wrong, in their order. *)
HeaderError(r) ==
  CASE r.status # OK                    -> FNSVC_ERR_STATUS
    [] r.status = OK /\ r.len < HeaderLen -> FNSVC_ERR_SHORT_RESPONSE
    [] r.status = OK /\ r.len >= HeaderLen /\ r.version # 1 -> FNSVC_ERR_BAD_VERSION
    [] r.status = OK /\ r.len >= HeaderLen /\ r.version = 1
         /\ (HeaderLen + r.entriesLen) % U16 > r.len -> FNSVC_ERR_ENTRIES_BOUNDS
    [] OTHER                            -> FNSVC_ERR_NONE

PageLost == /\ pc = "send"
            /\ \E e \in RawErrors : TransportFails(e)
            /\ Return(0)
            /\ UNCHANGED <<dir, delivered, ghosts>>

PageArrives ==
  /\ pc = "send"
  /\ \E r \in FullReplies(dir, start) \cup FaultyReplies(dir, start) :
       /\ ReplyArrives(r.status, r.len, HeaderError(r))
       /\ \/ HeaderError(r) # FNSVC_ERR_NONE /\ Return(0)
          \/ /\ HeaderError(r) = FNSVC_ERR_NONE
             /\ pc' = "parse" /\ resp' = r /\ pos' = HeaderLen /\ idx' = 0
             /\ UNCHANGED <<start, ret>>
  /\ UNCHANGED <<dir, delivered, ghosts>>

(* A slip: a full entry's size and times are not known to be there. *)
NoTimesEntryFits ==
  /\ pos + 2 <= resp.len
  /\ pos + 2 + NameLen[resp.names[idx + 1]] <= resp.len
  /\ NameLen[resp.names[idx + 1]] < ListNameMax + 1

(* The three bounds tests on the entry at pos pass.  name_len is read only
   once its byte is known to be in the reply. *)
EntryFits ==
  /\ pos + 2 <= resp.len
  /\ LET name_len == NameLen[resp.names[idx + 1]]
     IN /\ pos + 2 + name_len <= resp.len
        /\ name_len < ListNameMax + 1
        /\ resp.compact \/ pos + 2 + name_len + 16 <= resp.len

ParseEntry ==
  /\ pc = "parse" /\ idx < Len(resp.names)
  /\ EntryFits
  /\ delivered' = Append(delivered, resp.names[idx + 1])
  /\ pos' = pos + EntryLen(resp.names[idx + 1], resp.compact)
  /\ idx' = idx + 1
  /\ UNCHANGED <<dir, pc, start, resp, ret, ghosts, diag>>

EntryOutOfBounds ==
  /\ pc = "parse" /\ idx < Len(resp.names)
  /\ ~EntryFits
  /\ RefuseArgs(FNSVC_ERR_ENTRY_BOUNDS) /\ Return(0)
  /\ UNCHANGED <<dir, delivered, ghosts>>

(* Slips: the page just parsed is asked for again; an entry is skipped. *)
SameNextStart(count) == start
SkippingNextStart(count) == (start + count + 1) % U16

(* The start of the next page, after one of count entries. *)
NextStart(count) == (start + count) % U16

(* A slip: a page that promises more and brings nothing is asked for again. *)
StuckEndPage ==
  /\ pc = "parse" /\ idx = Len(resp.names)
  /\ \/ ~resp.more /\ Return(1) /\ UNCHANGED diag
     \/ /\ resp.more
        /\ pc' = "send" /\ start' = NextStart(Len(resp.names))
        /\ resp' = NoReply /\ pos' = 0 /\ idx' = 0
        /\ UNCHANGED <<ret, diag>>
  /\ UNCHANGED <<dir, delivered, ghosts>>

(* After the last entry of a page: done, stuck, or on to the next page. *)
EndPage ==
  /\ pc = "parse" /\ idx = Len(resp.names)
  /\ \/ ~resp.more /\ Return(1) /\ UNCHANGED diag
     \/ /\ resp.more /\ resp.names = <<>>
        /\ RefuseArgs(FNSVC_ERR_SHORT_RESPONSE) /\ Return(0)
     \/ /\ resp.more /\ resp.names # <<>>
        /\ pc' = "send" /\ start' = NextStart(Len(resp.names))
        /\ resp' = NoReply /\ pos' = 0 /\ idx' = 0
        /\ UNCHANGED <<ret, diag>>
  /\ UNCHANGED <<dir, delivered, ghosts>>

-----------------------------------------------------------------------------
(* Other clients of the file service; the ghosts follow them during a call. *)

DirInsert(x) ==
  /\ x \notin dir /\ dir' = dir \cup {x}
  /\ inserted' = IF pc = "idle" THEN inserted ELSE inserted \cup {x}
  /\ UNCHANGED <<pc, start, parser, delivered, ret, atCall, deleted, diag>>

DirDelete(x) ==
  /\ x \in dir /\ dir' = dir \ {x}
  /\ deleted' = IF pc = "idle" THEN deleted ELSE deleted \cup {x}
  /\ UNCHANGED <<pc, start, parser, delivered, ret, atCall, inserted, diag>>

-----------------------------------------------------------------------------
ListProgress == PageLost \/ PageArrives \/ ParseEntry \/ EntryOutOfBounds \/ EndPage

ListNext == \/ \E n \in UriLens, has_cb \in BOOLEAN : ListCall(n, has_cb)
            \/ ListProgress
            \/ \E x \in Names : DirInsert(x) \/ DirDelete(x)

ListSpec == ListInit /\ [][ListNext]_listVars

(* The call runs in its caller's thread and fnctl_nio_call() answers or times
   out, so a call that has begun keeps taking steps.  Nothing makes the other
   clients, or the caller, do anything. *)
ListFairSpec == ListSpec /\ WF_listVars(ListProgress)

-----------------------------------------------------------------------------
(* Properties. *)

(* Every variable has its type. *)
ListTypeOK ==
  /\ dir \subseteq Names /\ atCall \subseteq Names
  /\ inserted \subseteq Names /\ deleted \subseteq Names
  /\ pc \in {"idle", "send", "parse", "overrun"}
  /\ start \in 0..(U16 - 1)
  /\ resp.len \in 0..IoBufSize /\ resp.names \in Seq(Names)
  /\ resp.more \in BOOLEAN /\ resp.compact \in BOOLEAN
  /\ pos \in Nat /\ idx \in 0..Len(resp.names)
  /\ delivered \in Seq(Names)
  /\ ret \in {0, 1, NoRet}
  /\ DiagTypeOK

(* The parser never moves past the bytes the service sent, whatever entries
   the reply's header promises. *)
ParseWithinReply == pc = "parse" => HeaderLen <= pos /\ pos <= resp.len

(* What the caller finds after a call agrees with how it returned: a success
   leaves no error and an OK status, a failure names an error; a refused status
   is the only reason for FNSVC_ERR_STATUS, and a reply blamed for its content
   was an OK reply that did arrive. *)
DiagnosticsAgree ==
  pc = "idle" /\ ret # NoRet =>
    /\ ret = 1 <=> last_error = FNSVC_ERR_NONE
    /\ last_error = FNSVC_ERR_STATUS => last_status # OK
    /\ last_error \in {FNSVC_ERR_NONE} \cup FNSVC_ERR_BAD_VERSION..FNSVC_ERR_ENTRY_BOUNDS
         => last_status = OK /\ last_raw_error = 0

(* The callback is given a name again, or out of order, only if a name that
   sorts before the earlier of the two was added while the call was running. *)
OrderedUnlessInserted ==
  \A i, j \in DOMAIN delivered :
    i < j /\ delivered[j] <= delivered[i] =>
      \E z \in inserted : z < delivered[i]

(* A call that succeeds has given the callback every name that was there all
   along, except those after a name removed while the call was running. *)
CompleteUnlessDeleted ==
  pc = "idle" /\ ret = 1 =>
    \A x \in atCall \ deleted :
      x \in Range(delivered) \/ \E z \in deleted : z < x

(* A call that has begun, and whose request fits, returns, however the directory
   changes meanwhile. *)
ListReturns == pc \in {"send", "parse"} ~> pc = "idle"

(* src/common/fnsvc.c says of the room it asks for beside the URI: "v1 + uriLen +
   startIndex + maxPayloadBytes + flags = 6 bytes".  A URI that leaves that room
   is one whose request is built within req_buf. *)
RequestFits == pc # "overrun"
=============================================================================
