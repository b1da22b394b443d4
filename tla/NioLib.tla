------------------------------- MODULE NioLib -------------------------------
(***************************************************************************)
(* msdos/lib/nio.c and the two tools over it, NIOREAD and NIOPROBE: one    *)
(* request each, whose reply is taken apart out of a buffer on the stack.  *)
(* A byte of that buffer is received if its index is below the reply's     *)
(* length; the rest of it is whatever the stack held.                      *)
(***************************************************************************)
EXTENDS Naturals

CONSTANTS BytesArgs,     \* NIOREAD's third argument, as the unsigned it becomes
          FnErrors,      \* what fn_raw_call() or fn_init() may fail with
          Statuses,      \* what the disk service answers
          ReplyLens,     \* lengths of its replies
          DataLens       \* the length of the data a reply says it brings

U16 == 65536
RespSize == 1024         \* resp[] in nio_disk_read_sector(), and NIOREAD's sector[]
InfoSize == 16           \* resp[] in nio_disk_info()
OkStatus == 0
InternalError == 7
NioVersion == 1

ASSUME NioAssumption ==
  /\ BytesArgs \cup DataLens \subseteq 0..(U16 - 1)
  /\ FnErrors \subseteq 1..255 /\ Statuses \subseteq 0..255
  /\ ReplyLens \subseteq 0..RespSize

VARIABLE tool            \* the last run of a tool: what it got and what it printed

Run(name, exit, named, len, used, printed) ==
  [name |-> name, exit |-> exit, named |-> named, len |-> len, used |-> used,
   printed |-> printed]
Silent == 256            \* no status is printed
NotRun == Run("none", 0, Silent, 0, 0, 0)

(* What nio_call() may pass on from fn_raw_call(), which never puts more than cap
   bytes into a buffer of cap. *)
Replies(cap) == {[status |-> s, len |-> n, version |-> v, data_len |-> d] :
                   s \in Statuses, n \in ReplyLens \cap 0..cap, v \in {NioVersion, 2},
                   d \in DataLens}

-----------------------------------------------------------------------------
MapFnError(e) == IF e \in 0..6 \cup {8} THEN e ELSE InternalError

(* A slip: the length of the data is not held against the caller's buffer. *)
UnboundedReadsSector(r, buffer_length) ==
  /\ r.status = OkStatus /\ r.len >= 11 /\ r.version = NioVersion
  /\ r.len >= (11 + r.data_len) % U16

(* nio_disk_read_sector() accepts the reply r: the sum is a uint16_t. *)
ReadsSector(r, buffer_length) ==
  /\ r.status = OkStatus /\ r.len >= 11 /\ r.version = NioVersion
  /\ r.data_len <= buffer_length /\ r.len >= (11 + r.data_len) % U16

(* nio_disk_info() accepts it. *)
InfoAccepted(r) == r.status = OkStatus /\ r.len >= 12 /\ r.version = NioVersion

(* One past the last byte of the reply each of them reads; last_error is one
   more than an old service sends. *)
SectorUsed(r) == 11 + r.data_len
InfoUsed(r) == IF r.len > 12 THEN 13 ELSE 12

(* A failed tool prints the status, but not INTERNAL_ERROR. *)
Failed(name, status) ==
  Run(name, 2, IF status = InternalError THEN Silent ELSE status, 0, 0, 0)

(* What a run of each tool may come to: usage, a failure of fn_init() or of
   fn_raw_call(), and a reply. *)
NioRead(bytes) ==
  IF bytes = 0 \/ bytes > RespSize THEN {Run("NIOREAD", 1, Silent, 0, 0, 0)}
  ELSE {Run("NIOREAD", 2, Silent, 0, 0, 0)}
         \cup {Failed("NIOREAD", MapFnError(e)) : e \in FnErrors}
         \cup {IF ReadsSector(r, bytes)
               THEN Run("NIOREAD", 0, OkStatus, r.len, SectorUsed(r), r.data_len)
               ELSE Failed("NIOREAD", r.status) : r \in Replies(RespSize)}

NioProbe ==
  {Run("NIOPROBE", exit, Silent, 0, 0, 0) : exit \in {1, 2}}
    \cup {Failed("NIOPROBE", MapFnError(e)) : e \in FnErrors}
    \cup {IF InfoAccepted(r)
          THEN Run("NIOPROBE", 0, OkStatus, r.len, InfoUsed(r), 0)
          ELSE Failed("NIOPROBE", r.status) : r \in Replies(InfoSize)}

NioRuns == NioProbe \cup UNION {NioRead(bytes) : bytes \in BytesArgs}

RunTool == tool' \in NioRuns

-----------------------------------------------------------------------------
(* Properties. *)

(* A tool prints only bytes that were received, and no more of them than its
   sector buffer holds: neither the 16-bit sum in nio_disk_read_sector(), which
   a length near 2^16 wraps, nor the optional last byte of nio_disk_info(), lets
   it show what the stack held. *)
PrintsReceived == tool.exit = 0 => tool.used <= tool.len /\ tool.printed <= RespSize
=============================================================================
