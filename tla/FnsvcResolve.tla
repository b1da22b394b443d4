---------------------------- MODULE FnsvcResolve ----------------------------
(***************************************************************************)
(* fnsvc_resolve_path() (src/common/fnsvc.c): the service answers with two *)
(* length-prefixed strings, which are copied, cut to the caller's buffers, *)
(* out of resp_buf.  A copied string is the run of resp_buf bytes it came  *)
(* from; resp_buf keeps old bytes after the ones a reply brought.  Every   *)
(* sum of lengths is cut to sixteen bits before it is compared, so a       *)
(* length near 2^16 passes the test it should fail.                        *)
(***************************************************************************)
EXTENDS FnsvcCall, Integers

CONSTANTS BaseLens, ArgLens,        \* lengths of the two arguments
          ResolvedCaps, DisplayCaps,\* sizes of the caller's buffers
          StrLens,                  \* lengths a reply gives its strings
          ReplyLens                 \* how many bytes of a reply there are

ASSUME ResolveAssumption ==
  /\ BaseLens \cup ArgLens \cup ResolvedCaps \cup DisplayCaps \cup StrLens \subseteq 0..(U16 - 1)
  /\ ReplyLens \subseteq 0..IoBufSize

VARIABLES resolved,   \* what resolved_uri holds: bytes [from, from + len) of a reply
          display,    \* what display_path holds
          ret,
          last        \* ghost: what the last call sent, got and had room for

resolveVars == <<resolved, display, ret, last, diag>>

Slice(from, len) == [from |-> from, len |-> len]
Nothing == Slice(0, 0)
Overrun == 2          \* in ret: the call wrote past the end of req_buf

PathReply(status, version, len, uriLen, pathLen) ==
  [status |-> status, version |-> version, len |-> len, uriLen |-> uriLen, pathLen |-> pathLen]
NoReply == PathReply(OK, 1, 0, 0, 0)

(* version, flags, two reserved bytes, and each string after its length.  A
   reply may lack bytes or have too many for its strings, be of another version,
   or be a refusal. *)
PathReplies ==
  {PathReply(OK, v, n, u, p) : v \in {1, 2}, n \in ReplyLens, u \in StrLens, p \in StrLens}
    \cup {PathReply(e, 1, 0, 0, 0) : e \in ErrStatuses}

-----------------------------------------------------------------------------
ResolveInit == /\ resolved = Nothing /\ display = Nothing /\ ret = 0
               /\ last = [sent |-> 0, reply |-> NoReply, rcap |-> 0, dcap |-> 0]
               /\ DiagInit

(* Room is left for the terminator. *)
Fitted(len, cap) == IF len >= cap THEN cap - 1 ELSE len

(* What the checks before the first copy find wrong. *)
FirstError(r) ==
  CASE r.status # OK -> FNSVC_ERR_STATUS
    [] r.status = OK /\ (r.len < 8 \/ r.version # 1) -> FNSVC_ERR_BAD_VERSION
    [] r.status = OK /\ r.len >= 8 /\ r.version = 1 /\ (6 + r.uriLen + 2) % U16 > r.len
         -> FNSVC_ERR_SHORT_RESPONSE
    [] OTHER -> FNSVC_ERR_NONE

(* A slip: the second string is looked for after what was copied of the first. *)
PathOffsetAfterCopy(r, copied) == (6 + copied + 2) % U16

(* Where the second string starts: after all of the first, however much of it
   was copied (copied is its length in resolved_uri). *)
PathOffset(r, copied) == (6 + r.uriLen + 2) % U16

(* What is read as the length of the second string: the one the reply gives, or
   anything when the reply does not reach so far. *)
PathLens(r) == IF 8 + r.uriLen <= r.len THEN {r.pathLen} ELSE StrLens

(* The two copies, and the check between them that can still fail the call; a
   missing display_path is one with no room. *)
CopyStrings(r, path_len, rcap, dcap) ==
  LET copied == Fitted(r.uriLen, rcap)
      off == PathOffset(r, copied)
  IN /\ resolved' = Slice(6, copied)
     /\ \/ /\ (off + path_len) % U16 > r.len
           /\ ReplyArrives(r.status, r.len, FNSVC_ERR_SHORT_RESPONSE)
           /\ ret' = 0 /\ UNCHANGED display
        \/ /\ (off + path_len) % U16 <= r.len
           /\ ReplyArrives(r.status, r.len, FNSVC_ERR_NONE)
           /\ ret' = 1
           /\ display' = IF dcap > 0 THEN Slice(off, Fitted(path_len, dcap)) ELSE display

(* A slip: the overhead counts only one of the two length fields. *)
ResolveOneLengthOverhead == 3

ResolveRequestOverhead == 5        \* FNSVC_RESOLVE_PATH_REQUEST_OVERHEAD

(* Version, and the two strings after their lengths: the bytes written to req_buf. *)
ResolveRequestLen(base_len, arg_len) == 1 + 2 + base_len + 2 + arg_len

(* An exchange that fails, or whose reply is taken apart. *)
ResolveExchange(sent, rcap, dcap) ==
  \/ /\ \E e \in RawErrors : OnlyExchangeFails(e)
     /\ ret' = 0 /\ UNCHANGED <<resolved, display, last>>
  \/ \E r \in PathReplies :
       /\ last' = [sent |-> sent, reply |-> r, rcap |-> rcap, dcap |-> dcap]
       /\ \/ /\ FirstError(r) # FNSVC_ERR_NONE
             /\ ReplyArrives(r.status, r.len, FirstError(r))
             /\ ret' = 0 /\ UNCHANGED <<resolved, display>>
          \/ /\ FirstError(r) = FNSVC_ERR_NONE
             /\ \E path_len \in PathLens(r) : CopyStrings(r, path_len, rcap, dcap)

(* given is whether base_uri and resolved_uri are; a missing arg is an empty one.
   The sum that is compared wraps, so two arguments of 2^16 bytes together are
   written past the end of req_buf: what happens then is undefined, and the
   program is not followed any further. *)
ResolvePath(given, base_len, arg_len, rcap, dcap) ==
  LET acceptable == given /\ rcap # 0
      fits == (base_len + arg_len + ResolveRequestOverhead) % U16 <= IoBufSize
      sent == ResolveRequestLen(base_len, arg_len)
  IN
  \/ /\ ~(acceptable /\ fits)
     /\ RefuseArgs(IF acceptable THEN FNSVC_ERR_REQUEST_TOO_LARGE ELSE FNSVC_ERR_INVALID_ARG)
     /\ ret' = 0 /\ UNCHANGED <<resolved, display, last>>
  \/ /\ acceptable /\ fits /\ sent > IoBufSize
     /\ ret' = Overrun
     /\ last' = [sent |-> sent, reply |-> NoReply, rcap |-> rcap, dcap |-> dcap]
     /\ UNCHANGED <<resolved, display, diag>>
  \/ /\ acceptable /\ fits /\ sent <= IoBufSize
     /\ ResolveExchange(sent, rcap, dcap)

ResolveNext == /\ ret # Overrun
               /\ \E given \in BOOLEAN, b \in BaseLens, a \in ArgLens,
                     rcap \in ResolvedCaps, dcap \in DisplayCaps : ResolvePath(given, b, a, rcap, dcap)

ResolveSpec == ResolveInit /\ [][ResolveNext]_resolveVars

-----------------------------------------------------------------------------
(* Properties. *)

(* Every variable has its type. *)
ResolveTypeOK == /\ resolved \in [from : Nat, len : Nat] /\ display \in [from : Nat, len : Nat]
                 /\ ret \in {0, 1, Overrun}
                 /\ last.sent \in Nat /\ last.rcap \in Nat /\ last.dcap \in Nat
                 /\ DiagTypeOK

(* A request is longer than req_buf only if its length needs more than sixteen
   bits: short of that the test on the two arguments counts every byte that is
   written beside them. *)
ResolveRequestFits == ret = Overrun => last.sent >= U16

(* The sums of lengths that wrap, of the first string and of both. *)
LengthWraps(r) == 8 + r.uriLen >= U16 \/ 8 + r.uriLen + r.pathLen >= U16

(* A call that succeeds never writes past the caller's buffers, and has copied
   the beginning of each of the two strings the service sent, as much as fits
   with a terminator, out of a reply no byte of which was missing: never bytes of
   an earlier reply, and never the display path from where a truncated URI ended.
   The one exception is a reply whose lengths add up to 2^16 or more: the tests
   let it pass, and bytes that it did not bring are copied. *)
CopiesSound ==
  ret = 1 =>
    LET r == last.reply IN
    /\ r.status = OK /\ r.version = 1
    /\ resolved.from = 6 /\ resolved.len < last.rcap
    /\ resolved.len # r.uriLen => resolved.len = last.rcap - 1 /\ resolved.len < r.uriLen
    /\ last.dcap > 0 => display.len < last.dcap
    /\ \/ LengthWraps(r)
       \/ /\ 8 + r.uriLen + r.pathLen <= r.len
          /\ last.dcap > 0 =>
               /\ display.from = 8 + r.uriLen
               /\ display.len # r.pathLen => display.len = last.dcap - 1 /\ display.len < r.pathLen
=============================================================================
