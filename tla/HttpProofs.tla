------------------------------ MODULE HttpProofs ------------------------------
(***************************************************************************)
(* The theorems about HttpBin: whatever fails or is late, every handle is  *)
(* closed, read_body() stores the beginning of the answer, and a case that *)
(* passed deserved to, for bodies, buffers, chunks and tries of any size.  *)
(***************************************************************************)
EXTENDS HttpBin, SequenceTheorems, WellFoundedInduction, TLAPS

-----------------------------------------------------------------------------
(* The cases, the answers and the numbers. *)

LEMMA HttpNumbers == /\ MaxBody \in Nat /\ Retries \in Nat /\ UrlMax \in Nat /\ RequestLen \in Nat
                     /\ ReadChunk \in Nat \ {0}
BY HttpAssumption DEF HttpAssumption

(* A case that looks for a text reads the body. *)
LEMMA CaseFacts ==
  /\ Len(cases) = 8
  /\ \A k \in 1..8 : cases[k].expect_body => ~cases[k].head
<1>1. Len(cases) = 8
  BY DEF cases
<1>2. ASSUME NEW k \in 1..8 PROVE cases[k].expect_body => ~cases[k].head
  <2>1. k = 1 \/ k = 2 \/ k = 3 \/ k = 4 \/ k = 5 \/ k = 6 \/ k = 7 \/ k = 8
    OBVIOUS
  <2>2. /\ ~cases[1].head /\ ~cases[2].head /\ ~cases[3].head /\ ~cases[4].head
        /\ ~cases[5].expect_body /\ ~cases[6].head /\ ~cases[7].head /\ ~cases[8].head
    BY DEF cases, Request
  <2> QED BY <2>1, <2>2
<1> QED BY <1>1, <1>2

Chars == UNION {{b[k] : k \in DOMAIN b} : b \in Bodies}

LEMMA BodyIsSeq == ASSUME NEW a \in Answers PROVE a.body \in Seq(Chars) /\ Len(a.body) \in Nat
<1>1. a.body \in Bodies
  BY DEF Answers
<1>2. PICK b \in Bodies : b = a.body
  BY <1>1
<1>3. b \in Seq({b[k] : k \in DOMAIN b})
  BY HttpAssumption DEF HttpAssumption
<1>4. {b[k] : k \in DOMAIN b} \subseteq Chars
  BY DEF Chars
<1>5. b \in Seq(Chars)
  BY <1>3, <1>4, SeqMonotonic
<1>6. Len(b) \in Nat
  BY <1>5, LenProperties
<1> QED BY <1>2, <1>5, <1>6

(* The smaller of two numbers. *)
LEMMA MinOfTwo ==
  ASSUME NEW m \in Nat, NEW n \in Nat
  PROVE  Min({m, n}) = IF m <= n THEN m ELSE n
<1>1. CASE m <= n
  <2>1. \A x \in {m, n} : (\A y \in {m, n} : x <= y) => x = m
    BY <1>1
  <2>2. m \in {m, n} /\ \A y \in {m, n} : m <= y
    BY <1>1
  <2> QED BY <1>1, <2>1, <2>2 DEF Min
<1>2. CASE ~(m <= n)
  <2>1. \A x \in {m, n} : (\A y \in {m, n} : x <= y) => x = n
    BY <1>2
  <2>2. n \in {m, n} /\ \A y \in {m, n} : n <= y
    BY <1>2
  <2> QED BY <1>2, <2>1, <2>2 DEF Min
<1> QED BY <1>1, <1>2

-----------------------------------------------------------------------------
(* A chunk stored after the beginning of a sequence.                         *)

(* A run of a sequence. *)
LEMMA RunOf ==
  ASSUME NEW C, NEW s \in Seq(C), NEW m \in 0..Len(s), NEW n \in m..Len(s)
  PROVE  /\ SubSeq(s, m + 1, n) \in Seq(C)
         /\ Len(SubSeq(s, m + 1, n)) = n - m
         /\ \A k \in 1..(n - m) : SubSeq(s, m + 1, n)[k] = s[m + k]
<1>0. Len(s) \in Nat
  BY LenProperties
<1>1. m \in Int /\ n \in Int /\ m + 1 \in Int /\ n - (m + 1) + 1 = n - m /\ (n < m + 1 <=> n - m = 0)
  BY <1>0
<1>2. \A k \in (m + 1)..n : s[k] \in C
  <2> SUFFICES ASSUME NEW k \in (m + 1)..n PROVE s[k] \in C
    OBVIOUS
  <2>1. k \in 1..Len(s)
    BY <1>0
  <2> QED BY <2>1, ElementOfSeq
<1>3. /\ SubSeq(s, m + 1, n) \in Seq(C)
      /\ Len(SubSeq(s, m + 1, n)) = IF m + 1 <= n THEN n - (m + 1) + 1 ELSE 0
      /\ \A k \in 1..(n - (m + 1) + 1) : SubSeq(s, m + 1, n)[k] = s[m + 1 + k - 1]
  BY <1>1, <1>2, SubSeqProperties
<1>4. Len(SubSeq(s, m + 1, n)) = n - m
  BY <1>0, <1>1, <1>3
<1>5. \A k \in 1..(n - m) : m + 1 + k - 1 = m + k
  BY <1>1
<1> QED BY <1>1, <1>3, <1>4, <1>5

(* The run up to m and the first c of the run from m on are the run up to m + c. *)
LEMMA Extended ==
  ASSUME NEW C, NEW s \in Seq(C), NEW m \in 0..Len(s), NEW n \in m..Len(s), NEW c \in 0..(n - m)
  PROVE  SubSeq(s, 1, m) \o SubSeq(SubSeq(s, m + 1, n), 1, c) = SubSeq(s, 1, m + c)
<1> DEFINE p == SubSeq(s, 1, m)
           q == SubSeq(s, m + 1, n)
           r == SubSeq(q, 1, c)
           t == SubSeq(s, 1, m + c)
<1>0. Len(s) \in Nat
  BY LenProperties
<1>1. /\ 0 \in 0..Len(s) /\ m \in 0..Len(s) /\ m + c \in 0..Len(s) /\ 0 + 1 = 1 /\ m - 0 = m
      /\ m + c - 0 = m + c /\ m \in Nat /\ c \in Nat /\ n - m \in Nat
  BY <1>0
<1>2. p \in Seq(C) /\ Len(p) = m /\ \A k \in 1..m : p[k] = s[k]
  <2>1. \A k \in 1..m : 0 + k = k
    BY <1>1
  <2> QED BY <1>1, <2>1, RunOf
<1>3. q \in Seq(C) /\ Len(q) = n - m /\ \A k \in 1..(n - m) : q[k] = s[m + k]
  BY <1>1, RunOf
<1>4. r \in Seq(C) /\ Len(r) = c /\ \A k \in 1..c : r[k] = q[k]
  <2> HIDE DEF q
  <2>1. 0 \in 0..Len(q) /\ c \in 0..Len(q) /\ c - 0 = c /\ \A k \in 1..c : 0 + k = k
    BY <1>1, <1>3
  <2> QED BY <1>1, <1>3, <2>1, RunOf
<1>5. t \in Seq(C) /\ Len(t) = m + c /\ \A k \in 1..(m + c) : t[k] = s[k]
  <2>1. \A k \in 1..(m + c) : 0 + k = k
    BY <1>1
  <2> QED BY <1>1, <2>1, RunOf
<1> HIDE DEF p, q, r, t
<1>6. /\ p \o r \in Seq(C) /\ Len(p \o r) = m + c
      /\ \A k \in 1..(m + c) : (p \o r)[k] = IF k <= m THEN p[k] ELSE r[k - m]
  BY <1>2, <1>4, ConcatProperties
<1>7. ASSUME NEW k \in 1..(m + c) PROVE (p \o r)[k] = t[k]
  <2>1. CASE k <= m
    <3>1. k \in 1..m
      BY <1>1, <2>1
    <3> QED BY <1>2, <1>5, <1>6, <2>1, <3>1
  <2>2. CASE ~(k <= m)
    <3>1. k - m \in 1..c /\ k - m \in 1..(n - m) /\ m + (k - m) = k
      BY <1>1, <2>2
    <3>2. r[k - m] = s[k]
      BY <1>3, <1>4, <3>1
    <3> QED BY <1>5, <1>6, <2>2, <3>2
  <2> QED BY <2>1, <2>2
<1>8. p \o r = t
  BY <1>5, <1>6, <1>7, SeqEqual
<1> QED BY <1>8 DEF p, q, r, t

(* The body read so far, as far as it fits, is the body read next, as far as it
   fits, after a chunk is stored. *)
LEMMA StoreExtends ==
  ASSUME NEW a \in Answers, NEW o \in 0..Len(a.body), NEW n \in 0..(Len(a.body) - o),
         body_buf = SubSeq(a.body, 1, Min({MaxBody, o})),
         Store(SubSeq(a.body, o + 1, o + n))
  PROVE  body_buf' = SubSeq(a.body, 1, Min({MaxBody, o + n})) /\ Len(body_buf') <= MaxBody
<1> DEFINE s == a.body
           chunk == SubSeq(s, o + 1, o + n)
           m == Min({MaxBody, o})
<1>0. s \in Seq(Chars) /\ Len(s) \in Nat /\ MaxBody \in Nat
  BY BodyIsSeq, HttpNumbers
<1>1. o \in Nat /\ n \in Nat /\ o + n \in o..Len(s) /\ o + n \in Nat /\ o \in 0..Len(s) /\ (o + n) - o = n
  BY <1>0
<1>2. chunk \in Seq(Chars) /\ Len(chunk) = n
  BY <1>0, <1>1, RunOf
<1>3. m = IF MaxBody <= o THEN MaxBody ELSE o
  BY <1>0, <1>1, MinOfTwo
<1>4. Min({MaxBody, o + n}) = IF MaxBody <= o + n THEN MaxBody ELSE o + n
  BY <1>0, <1>1, MinOfTwo
<1>5. m \in 0..Len(s) /\ m \in Nat
  BY <1>0, <1>1, <1>3
<1>6. \A k \in 0..Len(s) : Len(SubSeq(s, 1, k)) = k
  <2> SUFFICES ASSUME NEW k \in 0..Len(s) PROVE Len(SubSeq(s, 1, k)) = k
    OBVIOUS
  <2>1. 0 \in 0..Len(s) /\ 0 + 1 = 1 /\ k - 0 = k
    BY <1>0
  <2> QED BY <1>0, <2>1, RunOf
<1> DEFINE c == IF m + n > MaxBody THEN MaxBody - m ELSE n
<1>7. body_buf' = SubSeq(s, 1, m) \o SubSeq(chunk, 1, c)
  <2>1. Len(body_buf) = m
    BY <1>5, <1>6
  <2>2. Store(chunk)
    OBVIOUS
  <2> HIDE DEF chunk, m
  <2>3. body_buf' = body_buf \o SubSeq(chunk, 1, c)
    BY <1>2, <2>1, <2>2 DEF Store
  <2> QED BY <2>3 DEF m
<1>8. CASE MaxBody <= o
  <2>1. m = MaxBody /\ c = 0 /\ Min({MaxBody, o + n}) = MaxBody
    BY <1>0, <1>1, <1>3, <1>4, <1>8
  <2>2. SubSeq(chunk, 1, 0) = <<>>
    BY SubSeqEmpty
  <2>3. SubSeq(s, 1, m) \in Seq(Chars)
    <3>1. 0 \in 0..Len(s) /\ 0 + 1 = 1
      BY <1>0
    <3>2. m \in 0..Len(s)
      BY <1>5
    <3> HIDE DEF m
    <3> QED BY <1>0, <3>1, <3>2, RunOf
  <2>4. body_buf' = SubSeq(s, 1, m)
    <3> HIDE DEF m, c, chunk, s
    <3> QED BY <1>7, <2>1, <2>2, <2>3, ConcatEmptySeq
  <2>5. Len(SubSeq(s, 1, m)) = m
    BY <1>5, <1>6
  <2> HIDE DEF m, c, chunk
  <2>6. body_buf' = SubSeq(s, 1, Min({MaxBody, o + n}))
    BY <2>1, <2>4, Zenon
  <2>7. Len(body_buf') = MaxBody
    BY <2>1, <2>4, <2>5, Zenon
  <2>8. MaxBody <= MaxBody
    BY HttpNumbers
  <2> QED BY <2>6, <2>7, <2>8, Zenon
<1>9. CASE ~(MaxBody <= o)
  <2>1. /\ m = o /\ c \in 0..n /\ o + c = Min({MaxBody, o + n})
        /\ o + c <= MaxBody /\ o + c \in 0..Len(s)
    BY <1>0, <1>1, <1>3, <1>4, <1>9
  <2>2. SubSeq(s, 1, o) \o SubSeq(chunk, 1, c) = SubSeq(s, 1, o + c)
    <3> HIDE DEF s, m, c
    <3> QED BY <1>0, <1>1, <2>1, Extended
  <2>3. Len(SubSeq(s, 1, o + c)) = o + c
    <3> HIDE DEF c
    <3> QED BY <1>6, <2>1
  <2> HIDE DEF m, c, chunk
  <2> QED BY <1>7, <2>1, <2>2, <2>3
<1> QED BY <1>8, <1>9

(* What strstr() finds is a run. *)
LEMMA Found ==
  ASSUME NEW t, NEW e
  PROVE  e \in SubSeqs(t) <=> \E b, c \in 0..Len(t) : e = SubSeq(t, b + 1, c)
BY DEF SubSeqs

(* What is found in the beginning of a body is found in a longer beginning. *)
LEMMA FoundInBeginning ==
  ASSUME NEW a \in Answers, NEW o \in Nat, o <= Len(a.body), NEW e,
         e \in SubSeqs(SubSeq(a.body, 1, Min({MaxBody, o})))
  PROVE  e \in SubSeqs(SubSeq(a.body, 1, Min({MaxBody, Len(a.body)})))
<1> DEFINE s == a.body
           m == Min({MaxBody, o})
           n == Min({MaxBody, Len(s)})
           p == SubSeq(s, 1, m)
           q == SubSeq(s, 1, n)
<1>0. s \in Seq(Chars) /\ Len(s) \in Nat /\ MaxBody \in Nat
  BY BodyIsSeq, HttpNumbers
<1>1. m = (IF MaxBody <= o THEN MaxBody ELSE o) /\ n = (IF MaxBody <= Len(s) THEN MaxBody ELSE Len(s))
  BY <1>0, MinOfTwo
<1>2. m \in Nat /\ n \in Nat /\ m <= n /\ n <= Len(s)
  BY <1>0, <1>1
<1>3. \A k \in 0..Len(s) : /\ SubSeq(s, 1, k) \in Seq(Chars) /\ Len(SubSeq(s, 1, k)) = k
                           /\ \A j \in 1..k : SubSeq(s, 1, k)[j] = s[j]
  <2> SUFFICES ASSUME NEW k \in 0..Len(s)
               PROVE  /\ SubSeq(s, 1, k) \in Seq(Chars) /\ Len(SubSeq(s, 1, k)) = k
                      /\ \A j \in 1..k : SubSeq(s, 1, k)[j] = s[j]
    OBVIOUS
  <2>1. 0 \in 0..Len(s) /\ 0 + 1 = 1 /\ k - 0 = k /\ \A j \in 1..k : 0 + j = j
    BY <1>0
  <2> QED BY <1>0, <2>1, RunOf
<1>4. /\ p \in Seq(Chars) /\ Len(p) = m /\ \A j \in 1..m : p[j] = s[j]
      /\ q \in Seq(Chars) /\ Len(q) = n /\ \A j \in 1..n : q[j] = s[j]
  <2>1. m \in 0..Len(s) /\ n \in 0..Len(s)
    BY <1>0, <1>2
  <2> HIDE DEF m, n
  <2> QED BY <1>3, <2>1
<1> HIDE DEF s, m, n, p, q
<1>5. PICK b \in 0..m, c \in 0..m : e = SubSeq(p, b + 1, c)
  <2>1. e \in SubSeqs(p)
    BY DEF p, m, s
  <2>3. \E b, c \in 0..Len(p) : e = SubSeq(p, b + 1, c)
    BY <2>1, Found
  <2>4. Len(p) = m
    BY <1>4
  <2> QED BY <2>3, <2>4, Zenon
<1>6. SubSeq(p, b + 1, c) = SubSeq(q, b + 1, c)
  <2>1. b + 1 \in Int /\ c \in Int /\ \A j \in (b + 1)..c : j \in 1..m /\ j \in 1..n
    BY <1>2
  <2>2. \A j \in (b + 1)..c : p[j] \in Chars /\ q[j] \in Chars /\ p[j] = q[j]
    BY <1>4, <2>1, ElementOfSeq
  <2> DEFINE x == SubSeq(p, b + 1, c)
             y == SubSeq(q, b + 1, c)
             l == IF b + 1 <= c THEN c - (b + 1) + 1 ELSE 0
  <2>3. x \in Seq(Chars) /\ Len(x) = l /\ \A j \in 1..(c - (b + 1) + 1) : x[j] = p[b + 1 + j - 1]
    BY <2>1, <2>2, SubSeqProperties
  <2>4. y \in Seq(Chars) /\ Len(y) = l /\ \A j \in 1..(c - (b + 1) + 1) : y[j] = q[b + 1 + j - 1]
    BY <2>1, <2>2, SubSeqProperties
  <2>5. \A j \in 1..l : j \in 1..(c - (b + 1) + 1) /\ b + 1 + j - 1 \in (b + 1)..c
    BY <1>2
  <2> HIDE DEF x, y, l
  <2>6. \A j \in 1..l : x[j] = y[j]
    BY <2>2, <2>3, <2>4, <2>5
  <2>7. x = y
    BY <2>3, <2>4, <2>6, SeqEqual
  <2> QED BY <2>7 DEF x, y
<1>7. b \in 0..Len(q) /\ c \in 0..Len(q)
  BY <1>2, <1>4
<1>8. e \in SubSeqs(q)
  BY <1>5, <1>6, <1>7, Found
<1> QED BY <1>8 DEF q, n, s

-----------------------------------------------------------------------------
(* The inductive invariant.  What a verdict says of the body and the status    *)
(* has to be known from the steps on that settled them.                        *)

Working == {"write", "commit", "info", "read", "close"}
Stored == body_buf = SubSeq(answer.body, 1, Min({MaxBody, offset}))

(* Counting: main() has a case to run until it returns, and none has passed
   before the first. *)
CountInv == /\ pass \in Nat /\ fail \in Nat
            /\ pc # "exit" => i <= 8
            /\ pc = "start" => i = 1 /\ ~ok

(* While a handle is open there is an answer. *)
AnswerInv == pc \in Working => answer \in Answers

(* ok is the verdict on the status until the case is closed. *)
StatusInv == pc \in {"read", "close"} => (ok <=> http_status \in {0, test.expect_status})

(* read_body() stays within the answer, and leaves its beginning behind. *)
BodyInv == /\ pc = "read" => ~test.head /\ offset <= Len(answer.body)
           /\ pc = "close" /\ ~test.head => offset <= Len(answer.body) /\ Stored

HttpIInv == /\ HttpTypeOK /\ HandlesClosed /\ BodyExact /\ VerdictSound
            /\ CountInv /\ AnswerInv /\ StatusInv /\ BodyInv

(* HttpTypeOK and VerdictSound, taken apart. *)
DataOK == /\ http_status \in {0, 200, 204, 500}
          /\ written \in 0..RequestLen
          /\ retries \in 0..Retries
          /\ answer \in Answers \cup {NoAnswer}
          /\ offset \in Nat /\ Len(body_buf) <= MaxBody
Labels == {"start", "case", "exit"} \cup Working
Deserved(k) ==
  /\ cases[k].expect_body =>
       Expected \in SubSeqs(SubSeq(answer.body, 1, Min({MaxBody, Len(answer.body)})))
  /\ http_status \in {0, cases[k].expect_status}

LEMMA Parts ==
  /\ HttpTypeOK <=> /\ pc \in Labels /\ i \in 1..9 /\ pass + fail = i - 1
                    /\ ok \in BOOLEAN /\ handle \in BOOLEAN /\ DataOK
  /\ VerdictSound <=> (pc \in {"case", "exit"} /\ ok => Deserved(i - 1))
<1>1. Len(cases) + 1 = 9
  BY CaseFacts
<1>2. HttpTypeOK <=> /\ pc \in Labels /\ i \in 1..9 /\ pass + fail = i - 1
                     /\ ok \in BOOLEAN /\ handle \in BOOLEAN /\ DataOK
  <2>1. Labels = {"start", "case", "write", "commit", "info", "read", "close", "exit"}
    BY DEF Labels, Working
  <2> QED BY <1>1, <2>1, Zenon DEF HttpTypeOK, DataOK
<1>3. VerdictSound <=> (pc \in {"case", "exit"} /\ ok => Deserved(i - 1))
  BY Zenon DEF VerdictSound, Deserved
<1> QED BY <1>2, <1>3

LEMMA PartsNext ==
  /\ HttpTypeOK' <=> /\ pc' \in Labels /\ i' \in 1..9 /\ pass' + fail' = i' - 1
                     /\ ok' \in BOOLEAN /\ handle' \in BOOLEAN /\ DataOK'
  /\ VerdictSound' <=> (pc' \in {"case", "exit"} /\ ok' => \A k : k = i' - 1 => Deserved(k)')
<1>1. Len(cases) + 1 = 9
  BY CaseFacts
<1>2. HttpTypeOK' <=> /\ pc' \in Labels /\ i' \in 1..9 /\ pass' + fail' = i' - 1
                      /\ ok' \in BOOLEAN /\ handle' \in BOOLEAN /\ DataOK'
  <2>1. Labels = {"start", "case", "write", "commit", "info", "read", "close", "exit"}
    BY DEF Labels, Working
  <2> QED BY <1>1, <2>1, Zenon DEF HttpTypeOK, DataOK
<1>3. VerdictSound' <=> (pc' \in {"case", "exit"} /\ ok' => \A k : k = i' - 1 => Deserved(k)')
  BY Zenon DEF VerdictSound, Deserved
<1> QED BY <1>2, <1>3

(* A case ends: its handle is closed, and its verdict is counted. *)
LEMMA EndCase ==
  ASSUME HttpIInv, pc \in {"case"} \cup Working, NEW k, k = i, NEW v \in BOOLEAN, Verdict(v),
         handle' = FALSE, DataOK', v => Deserved(k)'
  PROVE  HttpIInv'
<1>1. /\ i \in 1..8 /\ pass \in Nat /\ fail \in Nat /\ pass + fail = i - 1 /\ Len(cases) = 8
  <2>1. i \in 1..9 /\ pass + fail = i - 1
    BY Parts DEF HttpIInv
  <2>2. pc # "exit" /\ (pc # "exit" => i <= 8) /\ pass \in Nat /\ fail \in Nat
    BY DEF HttpIInv, CountInv, Working
  <2> QED BY <2>1, <2>2, CaseFacts
<1>2. /\ pc' = IF i = 8 THEN "exit" ELSE "case"
      /\ i' = i + 1
      /\ pass' = IF v THEN pass + 1 ELSE pass
      /\ fail' = IF v THEN fail ELSE fail + 1
  BY <1>1, Zenon DEF Verdict
<1>3. ok' = v
  BY Zenon DEF Verdict
<1>4. /\ i' \in 1..9 /\ pass' \in Nat /\ fail' \in Nat /\ pass' + fail' = i' - 1
      /\ pc' # "exit" => i' <= 8
  BY <1>1, <1>2
<1>5. pc' \in {"case", "exit"} /\ pc' \notin Working /\ pc' # "start" /\ pc' \in Labels
      /\ pc' \notin {"info", "read", "close"} /\ pc' # "read" /\ pc' # "close"
  BY <1>2 DEF Working, Labels
<1>6. HttpTypeOK'
  <2>1. handle' \in BOOLEAN
    OBVIOUS
  <2> QED BY <1>3, <1>4, <1>5, <2>1, PartsNext, Zenon
<1>7. i' - 1 = k
  BY <1>1, <1>2
<1>8. VerdictSound'
  BY <1>3, <1>7, PartsNext, Zenon
<1>9. HandlesClosed'
  BY <1>5, Zenon DEF HandlesClosed, Working
<1>10. BodyExact' /\ CountInv' /\ AnswerInv' /\ StatusInv' /\ BodyInv'
  BY <1>4, <1>5, Zenon DEF BodyExact, CountInv, AnswerInv, StatusInv, BodyInv
<1> QED BY <1>6, <1>8, <1>9, <1>10, Zenon DEF HttpIInv

LEMMA DataKept ==
  ASSUME HttpIInv,
         UNCHANGED <<http_status, written, offset, retries, body_buf, answer>>
  PROVE  DataOK'
BY Parts DEF HttpIInv, DataOK

(* A case given up fails, and leaves no handle. *)
LEMMA GivenUp ==
  ASSUME HttpIInv, pc \in Working, GiveUp, DataOK'
  PROVE  HttpIInv'
<1>1. Verdict(FALSE) /\ handle' = FALSE
  BY Zenon DEF GiveUp
<1>2. PICK k : k = i
  OBVIOUS
<1> QED BY <1>1, <1>2, EndCase, Zenon

(* A step within a case: its handle stays open, and it is the same case. *)
LEMMA WithinCase ==
  ASSUME HttpIInv, pc \in {"case"} \cup Working, pc' \in Working, handle' = TRUE, ok' \in BOOLEAN,
         UNCHANGED <<i, pass, fail>>, DataOK'
  PROVE  HttpTypeOK' /\ HandlesClosed' /\ VerdictSound' /\ CountInv' /\ test' = test /\ i \in 1..8
<1>1. /\ i \in 1..9 /\ pass + fail = i - 1 /\ pass \in Nat /\ fail \in Nat /\ i <= 8
  <2>1. pc # "exit"
    BY DEF Working
  <2> QED BY <2>1, Parts DEF HttpIInv, CountInv
<1>2. pc' \in Labels /\ pc' \notin {"case", "exit"} /\ pc' # "start" /\ pc' # "exit"
  BY DEF Labels, Working
<1>3. i' = i /\ pass' = pass /\ fail' = fail
  BY Zenon
<1>4. i' \in 1..9 /\ pass' + fail' = i' - 1 /\ i' <= 8
  BY <1>1, <1>3
<1>5. HttpTypeOK'
  <2>1. handle' \in BOOLEAN
    OBVIOUS
  <2> QED BY <1>2, <1>4, <2>1, PartsNext, Zenon
<1>6. HandlesClosed'
  BY Zenon DEF HandlesClosed, Working
<1>7. VerdictSound'
  BY <1>2, PartsNext, Zenon
<1>8. CountInv'
  BY <1>1, <1>2, <1>3, <1>4, Zenon DEF CountInv
<1>9. test' = test
  BY <1>3, Zenon DEF test
<1> QED BY <1>1, <1>5, <1>6, <1>7, <1>8, <1>9

(* The verdict on the body and the status, after a step that is neither to read
   nor to close. *)
LEMMA NotYetJudged ==
  ASSUME pc' \notin {"read", "close"}
  PROVE  BodyExact' /\ StatusInv' /\ BodyInv'
BY Zenon DEF BodyExact, StatusInv, BodyInv

LEMMA OpenStep == ASSUME HttpIInv, Open PROVE HttpIInv'
<1>1. /\ pc = "case" /\ http_status' = 0 /\ written' = 0 /\ UNCHANGED <<offset, retries, body_buf>>
      /\ pc \in {"case"} \cup Working
  BY Zenon DEF Open
<1>2. DataOK /\ 0 \in 0..RequestLen
  BY Parts, HttpNumbers DEF HttpIInv
<1>3. CASE Verdict(FALSE) /\ UNCHANGED <<handle, answer>>
  <2>1. DataOK'
    BY <1>1, <1>2, <1>3 DEF DataOK
  <2>2. handle' = FALSE
    <3>1. handle \in BOOLEAN
      BY Parts, Zenon DEF HttpIInv
    <3>2. pc \notin {"write", "commit", "info", "read", "close"}
      BY <1>1
    <3> QED BY <1>3, <3>1, <3>2, Zenon DEF HttpIInv, HandlesClosed
  <2>3. PICK k : k = i
    OBVIOUS
  <2> QED BY <1>1, <1>3, <2>1, <2>2, <2>3, EndCase, Zenon
<1>4. CASE /\ UrlFits /\ handle' = TRUE /\ answer' \in Answers
           /\ ok' = TRUE /\ Go(IF test.sends THEN "write" ELSE "info")
  <2>1. DataOK'
    BY <1>1, <1>2, <1>4 DEF DataOK
  <2>2. /\ pc' = (IF test.sends THEN "write" ELSE "info") /\ UNCHANGED <<i, pass, fail>>
    BY <1>4, Zenon DEF Go
  <2>3. pc' \in Working /\ pc' \notin {"read", "close"} /\ pc' \in {"write", "info"}
    BY <2>2 DEF Working
  <2>4. ok' \in BOOLEAN /\ handle' = TRUE
    BY <1>4
  <2>5. HttpTypeOK' /\ HandlesClosed' /\ VerdictSound' /\ CountInv' /\ test' = test
    BY <1>1, <2>1, <2>2, <2>3, <2>4, WithinCase, Zenon
  <2>6. AnswerInv'
    BY <1>4, Zenon DEF AnswerInv
  <2> QED BY <2>3, <2>5, <2>6, NotYetJudged, Zenon DEF HttpIInv
<1> QED BY <1>3, <1>4, Zenon DEF Open

LEMMA WriteStep == ASSUME HttpIInv, Write PROVE HttpIInv'
<1>1. /\ pc = "write" /\ pc \in Working /\ pc \in {"case"} \cup Working
      /\ UNCHANGED <<http_status, offset, retries, body_buf, answer>>
  BY DEF Write, Working
<1>2. CASE GiveUp /\ UNCHANGED written
  BY <1>1, <1>2, GivenUp, DataKept, Zenon
<1>3. CASE written' \in 0..RequestLen /\ Go("commit") /\ UNCHANGED <<ok, handle>>
  <2>1. DataOK'
    BY <1>1, <1>3, Parts DEF HttpIInv, DataOK
  <2>2. pc' = "commit" /\ pc' \in Working /\ pc' \notin {"read", "close"}
        /\ pc' \notin {"info", "read", "close"} /\ UNCHANGED <<i, pass, fail>>
    BY <1>3 DEF Go, Working
  <2>3. handle' = TRUE /\ ok' \in BOOLEAN /\ answer \in Answers
    BY <1>1, <1>3, Parts, Zenon DEF HttpIInv, HandlesClosed, AnswerInv, Working
  <2>4. HttpTypeOK' /\ HandlesClosed' /\ VerdictSound' /\ CountInv'
    BY <1>1, <2>1, <2>2, <2>3, WithinCase, Zenon
  <2>5. AnswerInv'
    BY <1>1, <2>2, <2>3, Zenon DEF AnswerInv
  <2> QED BY <2>2, <2>4, <2>5, NotYetJudged, Zenon DEF HttpIInv
<1> QED BY <1>2, <1>3, Zenon DEF Write

LEMMA CommitStep == ASSUME HttpIInv, Commit PROVE HttpIInv'
<1>1. /\ pc = "commit" /\ pc \in Working /\ pc \in {"case"} \cup Working
      /\ written' \in 0..RequestLen
      /\ UNCHANGED <<http_status, offset, retries, body_buf, answer>>
  BY DEF Commit, Working
<1>2. DataOK'
  BY <1>1, Parts DEF HttpIInv, DataOK
<1>3. CASE GiveUp
  BY <1>1, <1>2, <1>3, GivenUp, Zenon
<1>4. CASE Go("info") /\ UNCHANGED <<ok, handle>>
  <2>1. pc' = "info" /\ pc' \in Working /\ pc' \notin {"read", "close"} /\ UNCHANGED <<i, pass, fail>>
    BY <1>4 DEF Go, Working
  <2>2. handle' = TRUE /\ ok' \in BOOLEAN /\ answer \in Answers
    BY <1>1, <1>4, Parts, Zenon DEF HttpIInv, HandlesClosed, AnswerInv, Working
  <2>3. HttpTypeOK' /\ HandlesClosed' /\ VerdictSound' /\ CountInv'
    BY <1>1, <1>2, <2>1, <2>2, WithinCase, Zenon
  <2>4. AnswerInv'
    BY <1>1, <2>2, Zenon DEF AnswerInv
  <2> QED BY <2>1, <2>3, <2>4, NotYetJudged, Zenon DEF HttpIInv
<1> QED BY <1>3, <1>4, Zenon DEF Commit

(* The beginning of a body of which nothing has been read. *)
LEMMA NothingStored == ASSUME NEW s PROVE SubSeq(s, 1, Min({MaxBody, 0})) = <<>>
<1>1. MaxBody \in Nat /\ 0 \in Nat
  BY HttpNumbers
<1>2. Min({MaxBody, 0}) = 0
  <2>1. Min({MaxBody, 0}) = IF MaxBody <= 0 THEN MaxBody ELSE 0
    BY <1>1, MinOfTwo
  <2> QED BY <1>1, <2>1
<1> QED BY <1>2, SubSeqEmpty

LEMMA InfoStep == ASSUME HttpIInv, Info PROVE HttpIInv'
<1>1. /\ pc = "info" /\ pc \in Working /\ pc \in {"case"} \cup Working
      /\ http_status' \in {0, answer.status}
      /\ ok' = (http_status' \in {0, test.expect_status})
      /\ UNCHANGED <<written, handle, answer>>
  <2>1. pc = "info"
    BY DEF Info
  <2>2. pc \in Working /\ pc \in {"case"} \cup Working
    BY <2>1 DEF Working
  <2> QED BY <2>1, <2>2, Zenon DEF Info
<1>2. answer \in Answers /\ handle' = TRUE /\ ok' \in BOOLEAN
  <2>1. answer \in Answers
    BY <1>1, Zenon DEF HttpIInv, AnswerInv
  <2>2. handle' = TRUE
    BY <1>1, Parts, Zenon DEF HttpIInv, HandlesClosed
  <2>3. (http_status' \in {0, test.expect_status}) \in BOOLEAN
    OBVIOUS
  <2> QED BY <1>1, <2>1, <2>2, <2>3, Zenon
<1>3. http_status' \in {0, 200, 204, 500}
  BY <1>1, <1>2 DEF Answers
<1>4. CASE test.head /\ Go("close") /\ UNCHANGED <<offset, retries, body_buf>>
  <2>1. DataOK'
    BY <1>1, <1>3, <1>4, Parts DEF HttpIInv, DataOK
  <2>2. pc' = "close" /\ pc' \in Working /\ pc' # "read" /\ UNCHANGED <<i, pass, fail>>
    BY <1>4 DEF Go, Working
  <2>3. HttpTypeOK' /\ HandlesClosed' /\ VerdictSound' /\ CountInv' /\ test' = test
    BY <1>1, <1>2, <2>1, <2>2, WithinCase, Zenon
  <2>4. AnswerInv'
    BY <1>1, <1>2, <2>3, Zenon DEF AnswerInv
  <2>5. BodyExact' /\ BodyInv'
    BY <1>4, <2>2, <2>3, Zenon DEF BodyExact, BodyInv
  <2>6. StatusInv'
    BY <1>1, <2>3, Zenon DEF StatusInv
  <2> QED BY <2>3, <2>4, <2>5, <2>6, Zenon DEF HttpIInv
<1>5. CASE ~test.head /\ Go("read") /\ offset' = 0 /\ retries' = Retries /\ body_buf' = <<>>
  <2>1. DataOK'
    <3>1. Len(body_buf') = 0
      BY <1>5
    <3>2. MaxBody \in Nat /\ Retries \in 0..Retries
      BY HttpNumbers
    <3>3. Len(body_buf') <= MaxBody
      BY <3>1, <3>2
    <3> QED BY <1>1, <1>3, <1>5, <3>2, <3>3, Parts DEF HttpIInv, DataOK
  <2>2. pc' = "read" /\ pc' \in Working /\ pc' # "close" /\ UNCHANGED <<i, pass, fail>>
    BY <1>5 DEF Go, Working
  <2>3. HttpTypeOK' /\ HandlesClosed' /\ VerdictSound' /\ CountInv' /\ test' = test
    BY <1>1, <1>2, <2>1, <2>2, WithinCase, Zenon
  <2>4. AnswerInv'
    BY <1>1, <1>2, <2>3, Zenon DEF AnswerInv
  <2>5. BodyExact'
    BY <1>5, NothingStored, Zenon DEF BodyExact
  <2>6. BodyInv'
    <3>1. 0 <= Len(answer.body)
      BY <1>2, BodyIsSeq
    <3>2. offset' <= Len(answer'.body)
      BY <1>1, <1>5, <3>1, Zenon
    <3> QED BY <1>5, <2>2, <2>3, <3>2, Zenon DEF BodyInv
  <2>7. StatusInv'
    BY <1>1, <2>3, Zenon DEF StatusInv
  <2> QED BY <2>3, <2>4, <2>5, <2>6, <2>7, Zenon DEF HttpIInv
<1> QED BY <1>4, <1>5, Zenon DEF Info

(* What is known of a step that goes on reading, or on to the close. *)
LEMMA ReadingFacts ==
  ASSUME HttpIInv, pc = "read"
  PROVE  /\ pc \in Working /\ pc \in {"case"} \cup Working /\ handle = TRUE
         /\ answer \in Answers /\ ok \in BOOLEAN
         /\ ok <=> http_status \in {0, test.expect_status}
         /\ ~test.head /\ offset \in 0..Len(answer.body)
         /\ body_buf = SubSeq(answer.body, 1, Min({MaxBody, offset}))
<1>1. pc \in Working
  BY DEF Working
<1>2. handle = TRUE /\ answer \in Answers /\ ok \in BOOLEAN
  BY <1>1, Parts, Zenon DEF HttpIInv, HandlesClosed, AnswerInv
<1>3. /\ ok <=> http_status \in {0, test.expect_status}
      /\ ~test.head /\ offset <= Len(answer.body)
      /\ body_buf = SubSeq(answer.body, 1, Min({MaxBody, offset}))
  BY Zenon DEF HttpIInv, AnswerInv, StatusInv, BodyInv, BodyExact
<1>4. offset \in Nat
  BY Parts, Zenon DEF HttpIInv, DataOK
<1>5. offset \in 0..Len(answer.body)
  BY <1>2, <1>3, <1>4, BodyIsSeq
<1> QED BY <1>1, <1>2, <1>3, <1>5, Zenon

LEMMA NotReadyStep == ASSUME HttpIInv, NotReady PROVE HttpIInv'
<1>1. pc = "read" /\ UNCHANGED <<http_status, written, offset, body_buf, answer>>
  BY Zenon DEF NotReady
<1>2. CASE retries > 0 /\ retries' = retries - 1 /\ Go("read") /\ UNCHANGED <<ok, handle>>
  <2>1. DataOK'
    <3>1. DataOK
      BY Parts, Zenon DEF HttpIInv
    <3>2. retries' \in 0..Retries
      BY <1>2, <3>1, HttpNumbers DEF DataOK
    <3> QED BY <1>1, <3>1, <3>2, Zenon DEF DataOK
  <2>2. pc' = "read" /\ pc' \in Working /\ pc' # "close" /\ UNCHANGED <<i, pass, fail>>
    BY <1>2 DEF Go, Working
  <2>3. HttpTypeOK' /\ HandlesClosed' /\ VerdictSound' /\ CountInv' /\ test' = test
    BY <1>1, <1>2, <2>1, <2>2, ReadingFacts, WithinCase, Zenon
  <2>4. AnswerInv'
    BY <1>1, <2>3, ReadingFacts, Zenon DEF AnswerInv
  <2>5. BodyExact' /\ StatusInv'
    BY <1>1, <1>2, <2>3, ReadingFacts, Zenon DEF BodyExact, StatusInv
  <2>6. BodyInv'
    BY <1>1, <2>2, <2>3, Zenon DEF HttpIInv, BodyInv
  <2> QED BY <2>3, <2>4, <2>5, <2>6, Zenon DEF HttpIInv
<1>3. CASE GiveUp /\ UNCHANGED retries
  BY <1>1, <1>3, ReadingFacts, GivenUp, DataKept, Zenon
<1> QED BY <1>2, <1>3, Zenon DEF NotReady

LEMMA ReadFailsStep == ASSUME HttpIInv, ReadFails PROVE HttpIInv'
BY ReadingFacts, GivenUp, DataKept, Zenon DEF ReadFails

(* A chunk: no more of it than there is left of the answer. *)
LEMMA ReadStep == ASSUME HttpIInv, Read PROVE HttpIInv'
<1>1. /\ pc = "read" /\ UNCHANGED <<ok, http_status, written, handle, answer>>
  BY Zenon DEF Read
<1> DEFINE b == answer.body
<1>2. PICK n \in 0..Min({ReadChunk, Len(b) - offset}), eof \in BOOLEAN :
        /\ eof => offset + n = Len(b)
        /\ Store(SubSeq(b, offset + 1, offset + n))
        /\ offset' = offset + n /\ retries' = Retries
        /\ Go(IF n = 0 \/ eof THEN "close" ELSE "read")
  BY Zenon DEF Read
<1>3. /\ answer \in Answers /\ offset \in 0..Len(b) /\ Len(b) \in Nat /\ ~test.head
      /\ body_buf = SubSeq(b, 1, Min({MaxBody, offset}))
  BY <1>1, ReadingFacts, BodyIsSeq
<1>4. n \in 0..(Len(b) - offset)
  <2>1. Len(b) - offset \in Nat /\ ReadChunk \in Nat
    BY <1>3, HttpNumbers
  <2>2. Min({ReadChunk, Len(b) - offset}) = IF ReadChunk <= Len(b) - offset THEN ReadChunk
                                            ELSE Len(b) - offset
    BY <2>1, MinOfTwo
  <2> QED BY <2>1, <2>2
<1>5. offset + n \in Nat /\ offset + n <= Len(b)
  BY <1>3, <1>4
<1>6. body_buf' = SubSeq(b, 1, Min({MaxBody, offset + n})) /\ Len(body_buf') <= MaxBody
  <2>1. Store(SubSeq(answer.body, offset + 1, offset + n))
    BY <1>2
  <2> QED BY <1>3, <1>4, <2>1, StoreExtends
<1>7. DataOK'
  <2>1. DataOK /\ Retries \in 0..Retries
    BY Parts, HttpNumbers DEF HttpIInv
  <2>2. offset' \in Nat /\ retries' \in 0..Retries
    BY <1>2, <1>5, <2>1, Zenon
  <2> QED BY <1>1, <1>6, <2>1, <2>2, Zenon DEF DataOK
<1>8. /\ pc' = (IF n = 0 \/ eof THEN "close" ELSE "read") /\ UNCHANGED <<i, pass, fail>>
  BY <1>2, Zenon DEF Go
<1>9. pc' \in Working
  BY <1>8 DEF Working
<1>10. HttpTypeOK' /\ HandlesClosed' /\ VerdictSound' /\ CountInv' /\ test' = test
  BY <1>1, <1>7, <1>8, <1>9, ReadingFacts, WithinCase, Zenon
<1>11. AnswerInv' /\ StatusInv'
  BY <1>1, <1>10, ReadingFacts, Zenon DEF AnswerInv, StatusInv
<1>12. BodyExact'
  BY <1>1, <1>2, <1>6, Zenon DEF BodyExact
<1>13. BodyInv'
  <2>1. offset' <= Len(answer'.body)
    BY <1>1, <1>2, <1>5, Zenon
  <2>2. Stored'
    BY <1>1, <1>2, <1>6, Zenon DEF Stored
  <2> QED BY <1>3, <1>10, <2>1, <2>2, Zenon DEF BodyInv
<1> QED BY <1>10, <1>11, <1>12, <1>13, Zenon DEF HttpIInv

LEMMA CloseStep == ASSUME HttpIInv, Close PROVE HttpIInv'
<1>1. /\ pc = "close" /\ pc \in Working /\ pc \in {"case"} \cup Working /\ handle' = FALSE
      /\ UNCHANGED <<http_status, written, offset, retries, body_buf, answer>>
  <2>1. pc = "close" /\ handle' = FALSE
        /\ UNCHANGED <<http_status, written, offset, retries, body_buf, answer>>
    BY Zenon DEF Close
  <2>2. pc \in Working
    BY <2>1 DEF Working
  <2> QED BY <2>1, <2>2, Zenon
<1>2. PICK closed \in BOOLEAN :
        Verdict(ok /\ closed /\ (test.expect_body => Expected \in SubSeqs(body_buf)))
  BY Zenon DEF Close
<1> DEFINE v == ok /\ closed /\ (test.expect_body => Expected \in SubSeqs(body_buf))
<1>3. PICK k : k = i
  OBVIOUS
<1>4. i \in 1..8
  <2>1. i \in 1..9 /\ i <= 8
    BY <1>1, Parts DEF HttpIInv, CountInv
  <2> QED BY <2>1
<1>5. v => Deserved(k)
  <2> SUFFICES ASSUME v PROVE Deserved(k)
    BY Zenon
  <2>1. http_status \in {0, test.expect_status}
    BY <1>1, Zenon DEF HttpIInv, StatusInv
  <2>2. test.expect_body => ~test.head
    BY <1>4, CaseFacts, Zenon DEF test
  <2>3. ASSUME test.expect_body
        PROVE  Expected \in SubSeqs(SubSeq(answer.body, 1, Min({MaxBody, Len(answer.body)})))
    <3>1. Stored /\ offset <= Len(answer.body) /\ answer \in Answers
      BY <1>1, <2>2, <2>3, Zenon DEF HttpIInv, BodyInv, AnswerInv
    <3>2. offset \in Nat /\ Expected \in SubSeqs(body_buf)
      BY <2>3, Parts, Zenon DEF HttpIInv, DataOK
    <3>3. Expected \in SubSeqs(SubSeq(answer.body, 1, Min({MaxBody, offset})))
      BY <3>1, <3>2, Zenon DEF Stored
    <3> QED BY <3>1, <3>2, <3>3, FoundInBeginning
  <2> QED BY <1>3, <2>1, <2>3, Zenon DEF Deserved, test
<1>6. v => Deserved(k)'
  BY <1>1, <1>5, Zenon DEF Deserved
<1>7. DataOK'
  BY <1>1, DataKept, Zenon
<1>8. v \in BOOLEAN /\ Verdict(v)
  BY <1>2, Zenon
<1> HIDE DEF v
<1> QED BY <1>1, <1>3, <1>6, <1>7, <1>8, EndCase, Zenon

LEMMA StartStep == ASSUME HttpIInv, Start PROVE HttpIInv'
<1>1. /\ pc = "start" /\ pc' \in {"exit", "case"}
      /\ UNCHANGED <<i, pass, fail, ok, http_status, written, offset, retries, body_buf,
                     handle, answer>>
  BY DEF Start, caseVars
<1>2. /\ pc' \in Labels /\ pc' \notin Working /\ pc \notin Working /\ pc' # "start"
      /\ pc' \notin {"info", "read", "close"} /\ pc' # "read" /\ pc' # "close"
  BY <1>1 DEF Labels, Working
<1>3. i = 1 /\ ~ok
  BY <1>1, Zenon DEF HttpIInv, CountInv
<1>4. DataOK'
  BY <1>1, DataKept, Zenon
<1>5. HttpTypeOK'
  BY <1>1, <1>2, <1>4, Parts, PartsNext, Zenon DEF HttpIInv
<1>6. VerdictSound'
  BY <1>1, <1>3, PartsNext, Zenon
<1>7. HandlesClosed'
  BY <1>1, <1>2, Zenon DEF HttpIInv, HandlesClosed, Working
<1>8. CountInv'
  BY <1>1, <1>2, <1>3 DEF HttpIInv, CountInv
<1>9. BodyExact' /\ AnswerInv' /\ StatusInv' /\ BodyInv'
  BY <1>2, Zenon DEF BodyExact, AnswerInv, StatusInv, BodyInv
<1> QED BY <1>5, <1>6, <1>7, <1>8, <1>9, Zenon DEF HttpIInv

LEMMA HttpUnchanged == ASSUME HttpIInv, UNCHANGED vars PROVE HttpIInv'
<1>1. UNCHANGED <<pc, i, pass, fail, ok, http_status, written, offset, retries, body_buf,
                  handle, answer>>
  BY DEF vars, caseVars
<1>2. HttpTypeOK' /\ VerdictSound'
  <2>1. DataOK'
    BY <1>1, DataKept, Zenon
  <2>2. HttpTypeOK'
    BY <1>1, <2>1, Parts, PartsNext, Zenon DEF HttpIInv
  <2> QED BY <1>1, <2>2, Zenon DEF HttpIInv, VerdictSound
<1>4. HandlesClosed' /\ BodyExact'
  BY <1>1, Zenon DEF HttpIInv, HandlesClosed, BodyExact
<1>3. CountInv' /\ AnswerInv' /\ StatusInv' /\ BodyInv'
  BY <1>1, Zenon DEF HttpIInv, CountInv, AnswerInv, StatusInv, BodyInv, Stored, test
<1> QED BY <1>2, <1>3, <1>4, Zenon DEF HttpIInv

LEMMA HttpInductive == HttpIInv /\ [Next]_vars => HttpIInv'
<1> SUFFICES ASSUME HttpIInv, [Next]_vars PROVE HttpIInv'
  OBVIOUS
<1>1. CASE Exit
  BY <1>1, HttpUnchanged, Zenon DEF Exit
<1> QED BY <1>1, StartStep, OpenStep, WriteStep, CommitStep, InfoStep, NotReadyStep, ReadFailsStep,
           ReadStep, CloseStep, HttpUnchanged, Zenon DEF Next

LEMMA HttpInitially == Init => HttpIInv
<1> SUFFICES ASSUME Init PROVE HttpIInv
  OBVIOUS
<1>1. /\ pc = "start" /\ i = 1 /\ pass = 0 /\ fail = 0 /\ ok = FALSE /\ http_status = 0
      /\ written = 0 /\ offset = 0 /\ retries = 0 /\ body_buf = <<>> /\ handle = FALSE
      /\ answer = NoAnswer
  BY Zenon DEF Init
<1>2. pc \notin Working /\ pc \in Labels /\ pc \notin {"info", "read", "close"} /\ pc # "read"
      /\ pc # "close" /\ pc # "exit" /\ pc \notin {"case", "exit"}
  BY <1>1 DEF Working, Labels
<1>3. DataOK
  <2>1. Len(body_buf) = 0
    BY <1>1
  <2>2. Len(body_buf) <= MaxBody
    BY <2>1, HttpNumbers
  <2>3. written \in 0..RequestLen /\ retries \in 0..Retries /\ offset \in Nat
    BY <1>1, HttpNumbers
  <2> QED BY <1>1, <2>2, <2>3, Zenon DEF DataOK
<1>4. HttpTypeOK
  <2>1. i \in 1..9 /\ pass + fail = i - 1
    BY <1>1
  <2> QED BY <1>1, <1>2, <1>3, <2>1, Parts, Zenon
<1>5. HandlesClosed /\ BodyExact /\ AnswerInv /\ StatusInv /\ BodyInv
  BY <1>1, <1>2, Zenon DEF HandlesClosed, BodyExact, AnswerInv, StatusInv, BodyInv, Working
<1>6. VerdictSound
  BY <1>2, Parts, Zenon
<1>7. CountInv
  BY <1>1 DEF CountInv
<1> QED BY <1>4, <1>5, <1>6, <1>7, Zenon DEF HttpIInv

LEMMA HttpInvariance == Spec => []HttpIInv
BY HttpInitially, HttpInductive, PTL DEF Spec

(* fhttpbin.c: every variable keeps its type, and every case that is over has
   been counted, once. *)
THEOREM HttpTypeCorrect == Spec => []HttpTypeOK
BY HttpInvariance, PTL DEF HttpIInv

(* run_case(): a handle is open exactly between a case's open and its close,
   whichever of the calls in between fails. *)
THEOREM HandlesReturned == Spec => []HandlesClosed
BY HttpInvariance, PTL DEF HttpIInv

(* read_body(): what is stored is the beginning of the answer, as far as it was
   read or fits, for chunks of any size and whatever tries lie between them. *)
THEOREM BodyStored == Spec => []BodyExact
BY HttpInvariance, PTL DEF HttpIInv

(* run_case(): a case that passed was answered with the text it looks for, and
   the status, if one was told, was the one it expects; a status that was never
   told is not compared. *)
THEOREM VerdictsDeserved == Spec => []VerdictSound
BY HttpInvariance, PTL DEF HttpIInv
=============================================================================
