------------------------------ MODULE HttpBin ------------------------------
(***************************************************************************)
(* apps/test/fhttpbin.c: eight requests, one after another, each of which  *)
(* goes through open, write, commit, info, read and close.  Every call may *)
(* fail, and a read may find the answer not ready yet or bring less than a *)
(* chunk of it.                                                            *)
(***************************************************************************)
EXTENDS Integers, SequencesExt, FiniteSetsExt

CONSTANTS MaxBody,       \* 768
          ReadChunk,     \* 384, 192 on cc65
          Retries,       \* 500
          UrlMax,        \* 256, 128 on cc65
          BaseLens,      \* lengths of the base URL
          Bodies,        \* bodies of the answers: finite sequences
          Expected,      \* the text a case looks for
          RequestLen     \* the length of the body a case sends

ASSUME HttpAssumption == /\ {MaxBody, Retries, UrlMax, RequestLen} \subseteq Nat
                         /\ ReadChunk \in Nat \ {0}
                         /\ BaseLens \subseteq Nat /\ Expected # <<>>
                         /\ \A b \in Bodies : b \in Seq({b[k] : k \in DOMAIN b})

Request(path_len, sends, head, expect_status, expect_body) ==
  [path_len |-> path_len, sends |-> sends, head |-> head,
   expect_status |-> expect_status, expect_body |-> expect_body]

cases == << Request(4, FALSE, FALSE, 200, TRUE),     \* GET
            Request(5, TRUE, FALSE, 200, TRUE),      \* POST
            Request(4, TRUE, FALSE, 200, TRUE),      \* PUT
            Request(7, FALSE, FALSE, 200, TRUE),     \* DELETE
            Request(4, FALSE, TRUE, 200, FALSE),     \* HEAD
            Request(11, FALSE, FALSE, 204, FALSE),   \* STATUS204
            Request(11, FALSE, FALSE, 200, TRUE),    \* REDIRECT
            Request(9, TRUE, FALSE, 200, TRUE) >>    \* ANYTHING

VARIABLES pc, base_len,
          i, pass, fail,                   \* of main()
          ok, http_status, written,        \* of run_case()
          offset, retries, body_buf,       \* of read_body(); body_buf to its first 0
          handle,                          \* ghost: a handle is open
          answer                           \* ghost: the answer to the request

caseVars == <<ok, http_status, written, offset, retries, body_buf, handle, answer>>
vars == <<pc, base_len, i, pass, fail, caseVars>>

test == cases[i]
NoAnswer == [body |-> <<>>, status |-> 0]
Answers == [body : Bodies, status : {200, 204, 500}]

Init == /\ pc = "start" /\ base_len \in BaseLens
        /\ i = 1 /\ pass = 0 /\ fail = 0
        /\ ok = FALSE /\ http_status = 0 /\ written = 0
        /\ offset = 0 /\ retries = 0 /\ body_buf = <<>>
        /\ handle = FALSE /\ answer = NoAnswer

(* fn_init() fails, or FujiNet is not ready, or the cases are run. *)
Start == /\ pc = "start" /\ pc' \in {"exit", "case"}
         /\ UNCHANGED <<base_len, i, pass, fail, caseVars>>

Go(label) == pc' = label /\ UNCHANGED <<base_len, i, pass, fail>>

(* run_case() returns and main() counts its verdict. *)
Verdict(v) == /\ pc' = IF i = Len(cases) THEN "exit" ELSE "case"
              /\ i' = i + 1 /\ ok' = v
              /\ pass' = IF v THEN pass + 1 ELSE pass
              /\ fail' = IF v THEN fail ELSE fail + 1
              /\ UNCHANGED base_len

(* A slip: the handle is left open when a case is given up. *)
LeakingGiveUp == Verdict(FALSE) /\ UNCHANGED handle

(* A case given up after it was opened: what fn_close() says does not count. *)
GiveUp == Verdict(FALSE) /\ handle' = FALSE

UrlFits == base_len + test.path_len + 2 <= UrlMax + 1

Open ==
  /\ pc = "case"
  /\ \/ /\ Verdict(FALSE)                         \* URL too long, or fn_open() fails
        /\ UNCHANGED <<handle, answer>>
     \/ /\ UrlFits /\ handle' = TRUE
        /\ answer' \in Answers /\ ok' = TRUE /\ Go(IF test.sends THEN "write" ELSE "info")
  /\ http_status' = 0 /\ written' = 0
  /\ UNCHANGED <<offset, retries, body_buf>>

Write == /\ pc = "write"
         /\ \/ GiveUp /\ UNCHANGED written
            \/ /\ written' \in 0..RequestLen
               /\ Go("commit") /\ UNCHANGED <<ok, handle>>
         /\ UNCHANGED <<http_status, offset, retries, body_buf, answer>>

(* A write of no bytes, which sets written again. *)
Commit == /\ pc = "commit"
          /\ \/ GiveUp
             \/ Go("info") /\ UNCHANGED <<ok, handle>>
          /\ written' \in 0..RequestLen
          /\ UNCHANGED <<http_status, offset, retries, body_buf, answer>>

(* A slip: the buffer keeps the body of an earlier case. *)
StaleInfo == /\ pc = "info"
             /\ http_status' \in {0, answer.status}
             /\ ok' = (http_status' \in {0, test.expect_status})
             /\ IF test.head
                THEN Go("close") /\ UNCHANGED <<offset, retries>>
                ELSE Go("read") /\ offset' = 0 /\ retries' = Retries
             /\ UNCHANGED <<written, body_buf, handle, answer>>

(* get_info(): it may fail or know no status; neither ends the case. *)
Info == /\ pc = "info"
        /\ http_status' \in {0, answer.status}
        /\ ok' = (http_status' \in {0, test.expect_status})
        /\ IF test.head
           THEN Go("close") /\ UNCHANGED <<offset, retries, body_buf>>
           ELSE Go("read") /\ offset' = 0 /\ retries' = Retries /\ body_buf' = <<>>
        /\ UNCHANGED <<written, handle, answer>>

(* A slip: the tries are counted past zero, where they start over. *)
WrappingNotReady ==
  /\ pc = "read" /\ retries' = (retries - 1) % (Retries + 1) /\ Go("read")
  /\ UNCHANGED <<ok, http_status, written, offset, body_buf, handle, answer>>

(* The service is not ready or busy: another try, or none is left. *)
NotReady == /\ pc = "read"
            /\ IF retries > 0
               THEN retries' = retries - 1 /\ Go("read") /\ UNCHANGED <<ok, handle>>
               ELSE GiveUp /\ UNCHANGED retries
            /\ UNCHANGED <<http_status, written, offset, body_buf, answer>>

ReadFails == /\ pc = "read" /\ GiveUp
             /\ UNCHANGED <<http_status, written, offset, retries, body_buf, answer>>

(* Slips: every chunk is stored at the start of the buffer; nothing keeps it
   within the buffer. *)
RestartingStore(chunk) == body_buf' = SubSeq(chunk, 1, Min({Len(chunk), MaxBody}))
OverrunningStore(chunk) == body_buf' = body_buf \o chunk

Store(chunk) == LET copy_len == IF Len(body_buf) + Len(chunk) > MaxBody
                                THEN MaxBody - Len(body_buf) ELSE Len(chunk)
                IN  body_buf' = body_buf \o SubSeq(chunk, 1, copy_len)

(* Some bytes of the answer from offset on, and whether they are said to be the
   last of it; no bytes, which may come anywhere, are taken for its end. *)
Read == /\ pc = "read"
        /\ \E n \in 0..Min({ReadChunk, Len(answer.body) - offset}), eof \in BOOLEAN :
             /\ eof => offset + n = Len(answer.body)
             /\ Store(SubSeq(answer.body, offset + 1, offset + n))
             /\ offset' = offset + n /\ retries' = Retries
             /\ Go(IF n = 0 \/ eof THEN "close" ELSE "read")
        /\ UNCHANGED <<ok, http_status, written, handle, answer>>

(* The expected text is looked for, and the handle closed. *)
Close == /\ pc = "close" /\ handle' = FALSE
         /\ \E closed \in BOOLEAN :
              Verdict(ok /\ closed /\ (test.expect_body => Expected \in SubSeqs(body_buf)))
         /\ UNCHANGED <<http_status, written, offset, retries, body_buf, answer>>

Exit == pc = "exit" /\ UNCHANGED vars

Next == Start \/ Open \/ Write \/ Commit \/ Info \/ NotReady \/ ReadFails \/ Read \/ Close \/ Exit

Spec == Init /\ [][Next]_vars
(* The program runs on: no answer is promised, only that each call returns. *)
FairSpec == Spec /\ WF_vars(Next)

-----------------------------------------------------------------------------
(* Properties. *)

(* Every variable has its type, and every case that is over has been counted. *)
HttpTypeOK == /\ pc \in {"start", "case", "write", "commit", "info", "read", "close", "exit"}
              /\ i \in 1..(Len(cases) + 1) /\ pass + fail = i - 1
              /\ ok \in BOOLEAN /\ handle \in BOOLEAN
              /\ http_status \in {0, 200, 204, 500}
              /\ written \in 0..RequestLen
              /\ retries \in 0..Retries
              /\ answer \in Answers \cup {NoAnswer}
              /\ offset \in Nat /\ Len(body_buf) <= MaxBody

(* A handle is open exactly while a case is between its open and its close:
   whichever call fails, the handle was closed, once, before the next case is
   opened or main() returns. *)
HandlesClosed == handle <=> pc \in {"write", "commit", "info", "read", "close"}

(* A case that passed was answered with the text it looks for, within the first
   MaxBody bytes of the answer to this very request and not of an earlier one;
   and its status, if the service told one, is the one it expects. *)
VerdictSound ==
  pc \in {"case", "exit"} /\ ok =>
    LET last == cases[i - 1]
    IN  /\ last.expect_body =>
             Expected \in SubSeqs(SubSeq(answer.body, 1, Min({MaxBody, Len(answer.body)})))
        /\ http_status \in {0, last.expect_status}

(* What read_body() has stored is the beginning of the answer, as far as it was
   read or fits: short chunks, and tries in between, neither skip nor repeat a
   byte. *)
BodyExact == pc = "read" => body_buf = SubSeq(answer.body, 1, Min({MaxBody, offset}))

(* Whatever the service answers, the program ends: tries without progress are
   bounded, and an answer is finite. *)
Finishes == <>(pc = "exit")
=============================================================================
