------------------------- MODULE CodexMonitorProofs -------------------------
(***************************************************************************)
(* For any files, limits and histories: the types of CodexMonitor, that    *)
(* scanning in pieces gives what one reading would (IncrementalIsFull),    *)
(* that a response is billed once (BilledOnce), that a full scan heals     *)
(* (FullHeals) and what READY promises (ReadyIsComplete).                  *)
(*                                                                         *)
(* The argument goes from the file to the session.  A file and its truth   *)
(* fit (Honest), and a write goes on with it, begins it anew or removes it *)
(* (Moved).  A session says what its content says as long as that content  *)
(* is on disk; afterwards the time of its first hashed line lies before    *)
(* the new content (Sound), so that the boundary hashes cannot be those of *)
(* the new content.  READY needs, besides, that two states of a file with  *)
(* one ModTime are one state (Alike), for the sessions that are reused.    *)
(***************************************************************************)
EXTENDS CodexMonitor, FiniteSetTheorems, SequenceTheorems, TLAPS

(* What the first n lines say, of the truth of a file.                     *)
Parsed(said, n) == IF n = 0 THEN EmptyParse ELSE said[n].parse

(* The same parse, but for more errors.                                    *)
Agrees(p, q) ==
    /\ p.billed = q.billed /\ p.previous = q.previous /\ p.seen = q.seen
    /\ p.activities = q.activities /\ p.calls = q.calls /\ p.items = q.items
    /\ p.errors >= q.errors

(* A file and its truth, at a time.  What is billed and what the counter is*)
(* ahead of Codex's must come from what was said again, and, without a     *)
(* compaction, what the counter is behind must still be to come.           *)
Fits(p, file) ==
    /\ p.billed <= file.used + file.again
    /\ p.billed + file.thread <= file.used + file.again + p.previous
    /\ ~file.compacted => /\ file.used <= p.billed
                          /\ file.used + p.previous <= p.billed + file.thread
Billing(file, said) ==
    /\ \A n \in 1 .. Len(said) :
        /\ said[n].parse.billed <= said[n].used + said[n].again
        /\ ~file.compacted => said[n].used <= said[n].parse.billed
    /\ Fits(Parsed(said, Len(said)), file)
Recorded(line) == line.kind \in {"usage", "bare"} /\ line.n # 0
Seen(file, said, t) ==
    LET all == Parsed(said, Len(said))
    IN  /\ all.seen \subseteq 1 .. t
        /\ \A n \in 1 .. Len(file.lines) :
            Recorded(file.lines[n]) => file.lines[n].n \in all.seen
Chain(file, said, t) ==
    /\ Len(said) = Len(file.lines)
    /\ \A n \in 1 .. Len(said) :
        /\ said[n].parse = ParseLine(Parsed(said, n - 1), file.lines[n])
        /\ file.lines[n].time \in file.born .. t
Dates(file, t) ==
    /\ file.id = 0 => file = NoFile
    /\ file.id # 0 => file.born \in 1 .. t /\ file.mtime \in 1 .. t
Honest(file, said, t) ==
    Chain(file, said, t) /\ Dates(file, t) /\ Billing(file, said) /\ Seen(file, said, t)

SaidType == Seq([parse : ParseType, used : Nat, again : Nat])

(* What Codex does to a file at a time: it goes on, begins anew or ends.   *)
Kept(file, said, file2, said2, t) ==
    /\ file2.id = file.id /\ file2.born = file.born
    /\ Len(said) <= Len(said2)
    /\ \A n \in 1 .. Len(said) : said2[n] = said[n]
    /\ Size(file) <= Size(file2)
    /\ Info(file2) = Info(file) \/ file2.mtime = t + 1
Anew(file2, t) == file2.id # 0 /\ file2.born = t + 1 /\ file2.mtime = t + 1

----------------------------------------------------------------------------
(* Parsing.                                                                *)
LEMMA ParseTyped ==
    ASSUME NEW p \in ParseType, NEW l \in LineType
    PROVE  ParseLine(p, l) \in ParseType
<1> USE MonitorAssumption
<1>1. ASSUME NEW total \in Nat, NEW q \in ParseType PROVE Cumulative(q, total) \in ParseType
  <2> DEFINE more == IF total > q.previous THEN total - q.previous ELSE 0
             bad == IF total < q.previous THEN 1 ELSE 0
  <2>1. more \in Nat /\ bad \in Nat /\ q.billed \in Nat /\ q.errors \in Nat
      BY DEF ParseType
  <2> HIDE DEF more, bad
  <2>2. q.billed + more \in Nat /\ q.errors + bad \in Nat
      BY <2>1
  <2>3. Cumulative(q, total) = [q EXCEPT !.previous = total, !.billed = q.billed + more,
                                         !.errors = q.errors + bad]
      BY DEF Cumulative, more, bad
  <2> QED
      BY <2>2, <2>3 DEF ParseType
<1>2. Remember(p, l) \in ParseType
    BY DEF Remember, ParseType, LineType
<1>3. l.total \in Nat /\ l.n \in Nat
      /\ l.kind \in {"usage", "bare", "count", "meta", "turn", "call", "item", "bad"}
    BY DEF LineType
<1>4. Cumulative(Remember(p, l), l.total) \in ParseType
      /\ Cumulative(p, l.total) \in ParseType
    BY <1>1, <1>2, <1>3
<1>5. CASE l.kind \in {"usage", "count"}
    BY <1>4, <1>5 DEF ParseLine
<1>6. p.billed + 1 \in Nat /\ p.previous + 1 \in Nat /\ p.errors + 1 \in Nat
      /\ p.activities + 1 \in Nat /\ p.calls + 1 \in Nat /\ p.items + 1 \in Nat
    BY DEF ParseType
<1>7. CASE l.kind = "bare"
  <2>1. ParseLine(p, l) = IF l.n \in p.seen THEN p
                          ELSE [Remember(p, l) EXCEPT !.billed = p.billed + 1,
                                                      !.previous = p.previous + 1]
      BY <1>7 DEF ParseLine, Remember, ParseType
  <2> QED
      BY <1>2, <1>6, <2>1 DEF ParseType
<1>8. CASE l.kind \in {"meta", "turn", "call", "item", "bad"}
    BY <1>6, <1>8 DEF ParseLine, ParseType
<1> QED
    BY <1>3, <1>5, <1>7, <1>8

LEMMA ParseAgrees ==
    ASSUME NEW p \in ParseType, NEW q \in ParseType, NEW l \in LineType, Agrees(p, q)
    PROVE  /\ Agrees(ParseLine(p, l), ParseLine(q, l))
           /\ p.errors = q.errors => ParseLine(p, l).errors = ParseLine(q, l).errors
<1> USE MonitorAssumption
<1>1. \A total \in Nat : \A r, s \in ParseType : Agrees(r, s) =>
        /\ Agrees(Cumulative(r, total), Cumulative(s, total))
        /\ r.errors = s.errors => Cumulative(r, total).errors = Cumulative(s, total).errors
    BY DEF Cumulative, ParseType, Agrees
<1>3. l.total \in Nat /\ l.n \in Nat
      /\ l.kind \in {"usage", "bare", "count", "meta", "turn", "call", "item", "bad"}
    BY DEF LineType
<1>4. CASE l.kind = "usage"
  <2> DEFINE a == Remember(p, l)
             b == Remember(q, l)
  <2>1. a \in ParseType /\ b \in ParseType /\ Agrees(a, b) /\ a.errors = p.errors
        /\ b.errors = q.errors
      BY <1>3 DEF ParseType, Agrees, Remember
  <2> HIDE DEF a, b
  <2>2. Agrees(Cumulative(a, l.total), Cumulative(b, l.total))
        /\ (p.errors = q.errors =>
              Cumulative(a, l.total).errors = Cumulative(b, l.total).errors)
      BY <1>1, <1>3, <2>1
  <2>3. ParseLine(p, l) = (IF l.n \in p.seen THEN p ELSE Cumulative(a, l.total))
        /\ ParseLine(q, l) = (IF l.n \in q.seen THEN q ELSE Cumulative(b, l.total))
      BY <1>4 DEF ParseLine, a, b
  <2>4. p.seen = q.seen BY DEF Agrees
  <2> QED BY <2>2, <2>3, <2>4
<1>5. CASE l.kind = "count"
  <2>1. ParseLine(p, l) = Cumulative(p, l.total) /\ ParseLine(q, l) = Cumulative(q, l.total)
      BY <1>5 DEF ParseLine
  <2> QED BY <2>1, <1>1, <1>3
<1>6. CASE l.kind \in {"bare", "meta", "turn", "call", "item", "bad"}
  <2>1. p.billed \in Nat /\ p.previous \in Nat /\ p.errors \in Nat /\ q.errors \in Nat
        /\ p.activities \in Nat /\ p.calls \in Nat /\ p.items \in Nat
      BY DEF ParseType
  <2> QED
      BY <1>3, <1>6, <2>1 DEF ParseLine, Remember, Agrees, ParseType
<1> QED BY <1>3, <1>4, <1>5, <1>6

(* What has been seen after a line: the response it names, too.            *)
LEMMA ParseSeen ==
    ASSUME NEW p \in ParseType, NEW l \in LineType, NEW t \in Nat, p.seen \subseteq 1 .. t,
           l.n \in 0 .. t + 1, NEW q, q = ParseLine(p, l)
    PROVE  q.seen \subseteq 1 .. t + 1 /\ p.seen \subseteq q.seen
           /\ (Recorded(l) => l.n \in q.seen)
<1> USE MonitorAssumption
<1>1. l.kind \in {"usage", "bare", "count", "meta", "turn", "call", "item", "bad"}
      /\ l.total \in Nat
    BY DEF LineType
<1>2. \A total \in Nat : \A r \in ParseType : Cumulative(r, total).seen = r.seen
    BY DEF Cumulative, ParseType
<1>3. /\ Remember(p, l) \in ParseType
      /\ Remember(p, l).seen = p.seen \cup ({l.n} \ {0})
    BY DEF Remember, ParseType, LineType
<1>4. 1 .. t \subseteq 1 .. t + 1 /\ (l.n # 0 => l.n \in 1 .. t + 1)
    OBVIOUS
<1>5. CASE l.n \in p.seen /\ l.kind \in {"usage", "bare"}
    BY <1>4, <1>5 DEF ParseLine
<1>6. CASE l.n \notin p.seen /\ l.kind = "usage"
  <2>1. q = Cumulative(Remember(p, l), l.total)
      BY <1>6 DEF ParseLine
  <2>2. q.seen = p.seen \cup ({l.n} \ {0})
      BY <1>1, <1>2, <1>3, <2>1
  <2> QED
      BY <1>4, <2>2 DEF Recorded
<1>7. CASE l.n \notin p.seen /\ l.kind = "bare"
  <2>1. q.seen = p.seen \cup ({l.n} \ {0})
      BY <1>3, <1>7 DEF ParseLine, ParseType
  <2> QED
      BY <1>4, <2>1 DEF Recorded
<1>8. CASE l.kind \in {"count", "meta", "turn", "call", "item", "bad"}
  <2>1. q.seen = p.seen
      BY <1>1, <1>2, <1>8 DEF ParseLine, ParseType
  <2> QED
      BY <1>4, <1>8, <2>1 DEF Recorded
<1> QED
    BY <1>1, <1>5, <1>6, <1>7, <1>8

LEMMA FinishAgrees ==
    ASSUME NEW p \in ParseType, NEW q \in ParseType, Agrees(p, q)
    PROVE  /\ Finish(p) \in ParseType
           /\ Agrees(Finish(p), Finish(q))
           /\ Finish(p).errors = p.errors
           /\ Finish(p).billed = p.billed
BY DEF Finish, Agrees, ParseType

LEMMA EmptyTyped == EmptyParse \in ParseType /\ Finish(EmptyParse) = EmptyParse
BY DEF EmptyParse, ParseType, Finish

LEMMA ParsedTyped ==
    ASSUME NEW said \in SaidType, NEW n \in 0 .. Len(said)
    PROVE  Parsed(said, n) \in ParseType
<1>1. CASE n = 0
    BY <1>1, EmptyTyped DEF Parsed
<1>2. CASE n # 0
  <2>1. Len(said) \in Nat
      BY LenProperties DEF SaidType
  <2>2. n \in 1 .. Len(said)
      BY <1>2, <2>1
  <2>3. said[n] \in [parse : ParseType, used : Nat, again : Nat]
      BY <2>2, ElementOfSeq DEF SaidType
  <2> QED
      BY <1>2, <2>3 DEF Parsed
<1> QED
    BY <1>1, <1>2

----------------------------------------------------------------------------
(* A file and its truth, as Codex writes.                                  *)
LEMMA HonestLater ==
    ASSUME NEW file \in FileType, NEW said \in SaidType, NEW t \in Nat, NEW u \in Nat, t <= u,
           Honest(file, said, t)
    PROVE  Honest(file, said, u)
<1>1. \A i \in Nat : i .. t \subseteq i .. u
    OBVIOUS
<1>2. Chain(file, said, u)
    BY <1>1 DEF Honest, Chain, FileType
<1>3. Dates(file, u) /\ Billing(file, said) /\ Seen(file, said, u)
    BY <1>1 DEF Honest, Dates, Seen
<1> QED
    BY <1>2, <1>3 DEF Honest

(* The same lines: half a line more, or a compaction.                      *)
LEMMA HonestSameLines ==
    ASSUME NEW file \in FileType, NEW said \in SaidType, NEW t \in Nat, NEW u \in {t, t + 1},
           Honest(file, said, t), file.id # 0,
           NEW file2 \in FileType, file2.id = file.id, file2.born = file.born,
           file2.lines = file.lines, file2.used = file.used,
           file2.again = file.again, file2.mtime \in {file.mtime, u},
           \/ file2.compacted = file.compacted /\ file2.thread = file.thread
           \/ file2.compacted /\ file2.thread = 0,
           Size(file) <= Size(file2), Info(file2) = Info(file) \/ file2.mtime = t + 1
    PROVE  Honest(file2, said, u) /\ Kept(file, said, file2, said, t)
<1>1. Honest(file, said, u)
    BY HonestLater
<1>2. Len(said) \in Nat
    BY LenProperties DEF SaidType
<1>3. Parsed(said, Len(said)) \in ParseType
    BY <1>2, ParsedTyped
<1>4. Chain(file2, said, u) /\ Seen(file2, said, u)
    BY <1>1 DEF Honest, Chain, Seen
<1>5. Dates(file2, u)
    BY <1>1 DEF Honest, Dates
<1>6. Billing(file2, said)
  <2>1. Parsed(said, Len(said)).previous \in Nat /\ Parsed(said, Len(said)).billed \in Nat
      BY <1>3 DEF ParseType
  <2> QED
    <3>1. Fits(Parsed(said, Len(said)), file)
        BY <1>1 DEF Honest, Billing
    <3>2. Fits(Parsed(said, Len(said)), file2)
        BY <2>1, <3>1 DEF Fits, FileType
    <3> QED
        BY <1>1, <3>2 DEF Honest, Billing
<1>7. Kept(file, said, file2, said, t)
    BY <1>2 DEF Kept
<1> QED
    BY <1>4, <1>5, <1>6, <1>7 DEF Honest

(* One line more, of which nothing is asked but what is billed.            *)
LEMMA HonestAppend ==
    ASSUME NEW file \in FileType, NEW said \in SaidType, NEW t \in Nat,
           Honest(file, said, t), file.id # 0,
           NEW line \in LineType, line.time = t + 1, line.n \in 0 .. t + 1,
           NEW file2 \in FileType, file2.id = file.id, file2.born = file.born,
           file2.lines = Append(file.lines, line), file2.mtime = t + 1,
           file2.compacted = file.compacted,
           NEW q \in ParseType, q = ParseLine(Parsed(said, Len(said)), line),
           NEW said2, said2 = Append(said, [parse |-> q, used |-> file2.used,
                                            again |-> file2.again]),
           Fits(q, file2)
    PROVE  /\ said2 \in SaidType
           /\ Honest(file2, said2, t + 1)
           /\ Kept(file, said, file2, said2, t)
<1> DEFINE N == Len(said)
           last == [parse |-> q, used |-> file2.used, again |-> file2.again]
<1>1. /\ N \in Nat /\ N = Len(file.lines) /\ Len(file2.lines) = N + 1
      /\ \A n \in 1 .. N : file2.lines[n] = file.lines[n]
      /\ file2.lines[N + 1] = line
  <2>1. file.lines \in Seq(LineType)
      BY DEF FileType
  <2> QED
      BY <2>1, LenProperties, AppendProperties DEF Honest, Chain
<1>2. /\ said2 \in SaidType /\ Len(said2) = N + 1
      /\ \A n \in 1 .. N : said2[n] = said[n]
      /\ said2[N + 1] = last
  <2>1. last \in [parse : ParseType, used : Nat, again : Nat]
      BY DEF FileType
  <2> QED
      BY <2>1, AppendProperties DEF SaidType
<1>3. Parsed(said2, N + 1) = q /\ \A n \in 0 .. N : Parsed(said2, n) = Parsed(said, n)
    BY <1>1, <1>2 DEF Parsed
<1>4. 1 .. N + 1 = 1 .. N \cup {N + 1}
    BY <1>1
<1> HIDE DEF N, last
<1>5. Chain(file2, said2, t + 1)
  <2>1. \A n \in 1 .. N : /\ said2[n].parse = ParseLine(Parsed(said2, n - 1), file2.lines[n])
                          /\ file2.lines[n].time \in file2.born .. t + 1
    <3>1. ASSUME NEW n \in 1 .. N
          PROVE  /\ said2[n].parse = ParseLine(Parsed(said2, n - 1), file2.lines[n])
                 /\ file2.lines[n].time \in file2.born .. t + 1
      <4>1. n - 1 \in 0 .. N
          BY <1>1
      <4>2. said[n].parse = ParseLine(Parsed(said, n - 1), file.lines[n])
            /\ file.lines[n].time \in file.born .. t
          BY DEF Honest, Chain, N
      <4>3. file.born .. t \subseteq file.born .. t + 1
          BY DEF FileType
      <4> QED
          BY <1>1, <1>2, <1>3, <4>1, <4>2, <4>3
    <3> QED
        BY <3>1
  <2>2. /\ said2[N + 1].parse = ParseLine(Parsed(said2, N), file2.lines[N + 1])
        /\ file2.lines[N + 1].time \in file2.born .. t + 1
    <3>1. said2[N + 1].parse = q /\ Parsed(said2, N) = Parsed(said, N)
        BY <1>1, <1>2, <1>3 DEF last
    <3>2. file2.born \in Nat /\ file2.born <= t + 1
        BY DEF Honest, Dates, FileType
    <3> QED
        BY <1>1, <3>1, <3>2 DEF N
  <2>3. N + 1 - 1 = N
      BY <1>1
  <2> QED
      BY <1>1, <1>2, <1>4, <2>1, <2>2, <2>3 DEF Chain
<1>6. Dates(file2, t + 1)
    BY DEF Honest, Dates
<1>7. Billing(file2, said2)
  <2>1. \A n \in 1 .. N : /\ said2[n].parse.billed <= said2[n].used + said2[n].again
                          /\ ~file2.compacted => said2[n].used <= said2[n].parse.billed
      BY <1>2 DEF Honest, Billing, N
  <2>2. /\ said2[N + 1].parse = q /\ said2[N + 1].used = file2.used
        /\ said2[N + 1].again = file2.again
      BY <1>2 DEF last
  <2>3. q.billed <= file2.used + file2.again /\ (~file2.compacted => file2.used <= q.billed)
      BY DEF Fits
  <2> QED
      BY <1>2, <1>3, <1>4, <2>1, <2>2, <2>3 DEF Billing
<1>8. Seen(file2, said2, t + 1)
  <2>0. q.seen \subseteq 1 .. t + 1 /\ Parsed(said, Len(said)).seen \subseteq q.seen
        /\ (Recorded(line) => line.n \in q.seen)
    <3>1. Parsed(said, Len(said)) \in ParseType
        BY <1>1, ParsedTyped DEF N
    <3>2. Parsed(said, Len(said)).seen \subseteq 1 .. t
        BY DEF Honest, Seen
    <3> QED
        BY <3>1, <3>2, ParseSeen
  <2>1. \A n \in 1 .. N : Recorded(file2.lines[n]) => file2.lines[n].n \in q.seen
      BY <1>1, <2>0 DEF Honest, Seen
  <2>2. Recorded(file2.lines[N + 1]) => file2.lines[N + 1].n \in q.seen
      BY <1>1, <2>0
  <2>3. Len(said2) = N + 1 /\ Len(file2.lines) = N + 1 /\ Parsed(said2, N + 1) = q
      BY <1>1, <1>2, <1>3
  <2> QED
      BY <1>4, <2>0, <2>1, <2>2, <2>3 DEF Seen
<1>9. Kept(file, said, file2, said2, t)
  <2>1. Size(file) <= Size(file2)
    <3>1. \A i \in {0, 1}, j \in {0, 1} : 2 * N + i <= 2 * (N + 1) + j
        BY <1>1
    <3>2. (IF file.half THEN 1 ELSE 0) \in {0, 1} /\ (IF file2.half THEN 1 ELSE 0) \in {0, 1}
        OBVIOUS
    <3>3. Len(file.lines) = N /\ Len(file2.lines) = N + 1
        BY <1>1
    <3> QED
        BY <3>1, <3>2, <3>3 DEF Size
  <2> QED
      BY <1>1, <1>2, <2>1 DEF Kept, N
<1> QED
    BY <1>2, <1>5, <1>6, <1>7, <1>8, <1>9 DEF Honest

(* New content: nothing complete, or one line.                             *)
LEMMA HonestBegin ==
    ASSUME NEW t \in Nat, NEW file2 \in FileType, file2.id # 0,
           file2.born = t + 1, file2.mtime = t + 1, ~file2.compacted,
           file2.used = file2.thread, NEW said2,
           \/ file2.lines = <<>> /\ said2 = <<>> /\ file2.used = 0
           \/ \E line \in LineType : \E q \in ParseType :
                /\ file2.lines = <<line>> /\ line.time = t + 1 /\ line.n \in 0 .. t + 1
                /\ q = ParseLine(EmptyParse, line)
                /\ said2 = <<[parse |-> q, used |-> file2.used, again |-> file2.again]>>
                /\ q.billed = file2.used /\ q.previous = file2.used
    PROVE  said2 \in SaidType /\ Honest(file2, said2, t + 1) /\ Anew(file2, t)
<1>1. Dates(file2, t + 1) /\ Anew(file2, t)
    BY DEF Dates, Anew
<1>2. CASE file2.lines = <<>> /\ said2 = <<>> /\ file2.used = 0
  <2>1. Len(said2) = 0 /\ Len(file2.lines) = 0 /\ said2 \in SaidType
      BY <1>2, EmptySeq DEF SaidType
  <2>2. Parsed(said2, Len(said2)) = EmptyParse
      BY <2>1 DEF Parsed
  <2>3. EmptyParse.billed = 0 /\ EmptyParse.previous = 0 /\ EmptyParse.seen = {}
      BY DEF EmptyParse
  <2>4. Chain(file2, said2, t + 1)
      BY <2>1 DEF Chain
  <2>5. Billing(file2, said2)
      BY <1>2, <2>1, <2>2, <2>3 DEF Billing, Fits, FileType
  <2>6. Seen(file2, said2, t + 1)
      BY <2>1, <2>2, <2>3 DEF Seen
  <2> QED
      BY <1>1, <2>1, <2>4, <2>5, <2>6 DEF Honest
<1>3. ASSUME NEW line \in LineType, NEW q \in ParseType,
             file2.lines = <<line>>, line.time = t + 1, line.n \in 0 .. t + 1,
             q = ParseLine(EmptyParse, line),
             said2 = <<[parse |-> q, used |-> file2.used, again |-> file2.again]>>,
             q.billed = file2.used, q.previous = file2.used
      PROVE  said2 \in SaidType /\ Honest(file2, said2, t + 1)
  <2> DEFINE one == [parse |-> q, used |-> file2.used, again |-> file2.again]
  <2>1. one \in [parse : ParseType, used : Nat, again : Nat]
      BY DEF FileType
  <2>2. one.parse = q /\ one.used = file2.used /\ one.again = file2.again
      OBVIOUS
  <2> HIDE DEF one
  <2>3. said2 = <<one>>
      BY <1>3 DEF one
  <2>4. said2 \in SaidType /\ Len(said2) = 1 /\ said2[1] = one
      BY <2>1, <2>3 DEF SaidType
  <2>5. Len(file2.lines) = 1 /\ file2.lines[1] = line
      BY <1>3
  <2>6. Parsed(said2, 1) = q /\ Parsed(said2, 1 - 1) = EmptyParse
      BY <2>2, <2>4 DEF Parsed
  <2>7. q.billed \in Nat /\ file2.used \in Nat /\ \A n \in 1 .. 1 : n = 1
           /\ file2.again \in Nat
      BY DEF ParseType, FileType
  <2>8. Chain(file2, said2, t + 1)
    <3>1. line.time \in file2.born .. t + 1
        BY <1>3
    <3> QED
        BY <1>3, <2>2, <2>4, <2>5, <2>6, <2>7, <3>1 DEF Chain
  <2>9. Billing(file2, said2)
    <3>1. Fits(q, file2)
        BY <1>3, <2>7 DEF Fits
    <3> QED
        BY <1>3, <2>2, <2>4, <2>6, <2>7, <3>1 DEF Billing
  <2>10. Seen(file2, said2, t + 1)
    <3>1. EmptyParse \in ParseType /\ EmptyParse.seen \subseteq 1 .. t
        BY EmptyTyped DEF EmptyParse
    <3>2. q.seen \subseteq 1 .. t + 1 /\ (Recorded(line) => line.n \in q.seen)
        BY <1>3, <3>1, ParseSeen
    <3> QED
        BY <2>4, <2>5, <2>6, <2>7, <3>2 DEF Seen
  <2> QED
      BY <1>1, <2>4, <2>8, <2>9, <2>10 DEF Honest
<1> QED
    BY <1>1, <1>2, <1>3

----------------------------------------------------------------------------
(* Codex's steps.                                                          *)
Apart ==
    \A f, g \in Files : Exists(f) /\ Exists(g) /\ f # g => disk[f].mtime # disk[g].mtime
WorldInv == Apart /\ \A f \in Files : Honest(disk[f], truth[f], now)

Moves(f) ==
    \/ /\ Exists(f)
       /\ Kept(disk[f], truth[f], disk'[f], truth'[f], now)
       /\ disk'[f].mtime = disk[f].mtime \/ (now' = now + 1 /\ disk'[f].mtime = now')
    \/ now' = now + 1 /\ Anew(disk'[f], now) /\ (OpenNow(f) => scan'.parsed.torn)
    \/ disk'[f] = NoFile /\ ~OpenNow(f)
Moved ==
    /\ now' \in {now, now + 1} /\ now' \in 0 .. MaxWrites
    /\ disk' \in [Files -> FileType] /\ truth' \in [Files -> SaidType]
    /\ \A f \in Files : (disk'[f] = disk[f] /\ truth'[f] = truth[f]) \/ Moves(f)
    /\ UNCHANGED <<published, failures>>
    /\ scan' = scan \/ scan' = [scan EXCEPT !.parsed.torn = TRUE]

LEMMA WorldTyped ==
    ASSUME TypeOK
    PROVE  /\ disk \in [Files -> FileType] /\ truth \in [Files -> SaidType]
           /\ now \in Nat /\ now \in 0 .. MaxWrites
<1>1. truth \in [Files -> SaidType]
    BY DEF TypeOK, SaidType
<1>2. disk \in [Files -> FileType] /\ now \in 0 .. MaxWrites
    BY DEF TypeOK
<1>3. now \in Nat
    BY <1>2, MonitorAssumption
<1> QED
    BY <1>1, <1>2, <1>3

(* A write to a file that is there.                                        *)
LEMMA TouchStep ==
    ASSUME TypeOK, NEW f \in Files, NEW file \in FileType, file.id # 0, Touch(f, file)
    PROVE  \E file2 \in FileType :
            /\ disk' = [disk EXCEPT ![f] = file2]
            /\ now' = now + 1 /\ now' \in 0 .. MaxWrites
            /\ UNCHANGED <<published, failures>>
            /\ file2.id = file.id /\ file2.born = file.born /\ file2.mtime = now + 1
            /\ file2.lines = file.lines /\ file2.half = file.half
            /\ file2.used = file.used /\ file2.thread = file.thread
            /\ file2.again = file.again /\ file2.compacted = file.compacted
<1>1. now' = now + 1 /\ now' \in 0 .. MaxWrites /\ now' \in Nat
    BY WorldTyped, MonitorAssumption DEF Touch
<1>2. file # NoFile
    BY DEF NoFile
<1>3. disk' = [disk EXCEPT ![f] = [file EXCEPT !.mtime = now']]
    BY <1>2 DEF Touch
<1> DEFINE file2 == [file EXCEPT !.mtime = now']
<1>4. /\ file2 \in FileType
      /\ file2.id = file.id /\ file2.born = file.born /\ file2.mtime = now'
      /\ file2.lines = file.lines /\ file2.half = file.half
      /\ file2.used = file.used /\ file2.thread = file.thread
      /\ file2.again = file.again /\ file2.compacted = file.compacted
    BY <1>1 DEF FileType
<1>5. UNCHANGED <<published, failures>>
    BY DEF Touch
<1> QED
    BY <1>1, <1>3, <1>4, <1>5

LEMMA NoFileTyped == NoFile \in FileType /\ NoFile.id = 0
<1>1. <<>> \in Seq(LineType)
    BY EmptySeq
<1> QED
    BY <1>1 DEF NoFile, FileType

LEMMA NoFileHonest ==
    ASSUME NEW t \in Nat
    PROVE  Honest(NoFile, <<>>, t) /\ <<>> \in SaidType
<1>1. Len(<<>>) = 0 /\ <<>> \in SaidType
    BY EmptySeq DEF SaidType
<1>2. NoFile.lines = <<>> /\ NoFile.used = 0 /\ NoFile.thread = 0 /\ NoFile.id = 0
      /\ NoFile.again = 0
    BY DEF NoFile
<1>3. Parsed(<<>>, Len(<<>>)) = EmptyParse
    BY <1>1 DEF Parsed
<1>4. EmptyParse.billed = 0 /\ EmptyParse.previous = 0 /\ EmptyParse.seen = {}
    BY DEF EmptyParse
<1>5. Chain(NoFile, <<>>, t)
    BY <1>1, <1>2 DEF Chain
<1>6. Billing(NoFile, <<>>)
    BY <1>1, <1>2, <1>3, <1>4 DEF Billing, Fits
<1>7. Seen(NoFile, <<>>, t)
    BY <1>1, <1>2, <1>3, <1>4 DEF Seen
<1> QED
    BY <1>1, <1>2, <1>5, <1>6, <1>7 DEF Honest, Dates

LEMMA AfterParsed ==
    ASSUME TypeOK, NEW f \in Files
    PROVE  /\ Len(truth[f]) \in Nat /\ truth[f] \in SaidType
           /\ After(f) = Parsed(truth[f], Len(truth[f])) /\ After(f) \in ParseType
<1>1. truth[f] \in SaidType
    BY DEF TypeOK, SaidType
<1>2. Len(truth[f]) \in Nat /\ (truth[f] = <<>> <=> Len(truth[f]) = 0)
    BY <1>1, LenProperties, EmptySeq DEF SaidType
<1>3. After(f) = Parsed(truth[f], Len(truth[f]))
    BY <1>2 DEF After, Parsed, Last
<1>4. Parsed(truth[f], Len(truth[f])) \in ParseType
    BY <1>1, <1>2, ParsedTyped
<1> QED
    BY <1>1, <1>2, <1>3, <1>4

(* One file moves, and keeps the invariant.                                *)
LEMMA OneFile ==
    ASSUME TypeOK, WorldInv, NEW f \in Files,
           now' \in {now, now + 1}, now' \in 0 .. MaxWrites,
           NEW file \in FileType, NEW said \in SaidType,
           disk' = [disk EXCEPT ![f] = file], truth' = [truth EXCEPT ![f] = said],
           Honest(file, said, now'), Moves(f),
           UNCHANGED <<published, failures>>,
           scan' = scan \/ scan' = [scan EXCEPT !.parsed.torn = TRUE]
    PROVE  Moved /\ WorldInv'
<1>1. now \in Nat /\ now' \in Nat /\ now <= now'
    BY MonitorAssumption DEF TypeOK
<1>2. disk \in [Files -> FileType] /\ truth \in [Files -> SaidType]
    BY DEF TypeOK, SaidType
<1>3. disk'[f] = file /\ truth'[f] = said
    BY <1>2
<1>4. \A g \in Files : g # f => disk'[g] = disk[g] /\ truth'[g] = truth[g]
    BY <1>2
<1>5. Moved
    BY <1>2, <1>4 DEF Moved
<1>6. \A g \in Files : Honest(disk'[g], truth'[g], now')
  <2>1. ASSUME NEW g \in Files, g # f PROVE Honest(disk'[g], truth'[g], now')
    <3>1. Honest(disk[g], truth[g], now) /\ disk[g] \in FileType /\ truth[g] \in SaidType
        BY <1>2 DEF WorldInv
    <3>2. Honest(disk[g], truth[g], now')
        BY <1>1, <3>1, HonestLater
    <3> QED
        BY <1>4, <2>1, <3>2
  <2> QED
      BY <1>3, <2>1
<1>7. \A g \in Files : Exists(g) => disk[g].mtime <= now /\ disk[g].mtime \in Nat
    BY <1>1 DEF WorldInv, Honest, Dates, Exists
<1>8. ASSUME NEW g \in Files, g # f, Exists(g), file.id # 0
      PROVE  disk[g].mtime # file.mtime
  <2>1. CASE Exists(f) /\ file.mtime = disk[f].mtime
      BY <1>8, <2>1 DEF WorldInv, Apart
  <2>2. CASE file.mtime = now + 1
      BY <1>1, <1>7, <1>8, <2>2
  <2>3. (Exists(f) /\ file.mtime = disk[f].mtime) \/ file.mtime = now + 1
      BY <1>3, <1>8, NoFileTyped DEF Moves, Anew
  <2> QED
      BY <2>1, <2>2, <2>3
<1>9. Apart'
    BY <1>3, <1>4, <1>8 DEF WorldInv, Apart, Exists
<1> QED
    BY <1>5, <1>6, <1>9 DEF WorldInv

LEMMA CompactStep ==
    ASSUME TypeOK, WorldInv, NEW f \in Files, Compact(f)
    PROVE  Moved /\ WorldInv'
<1> DEFINE file == [disk[f] EXCEPT !.thread = 0, !.compacted = TRUE]
<1>1. disk \in [Files -> FileType] /\ truth \in [Files -> SaidType] /\ disk[f] \in FileType
      /\ truth[f] \in SaidType /\ now \in Nat /\ now \in 0 .. MaxWrites
    BY WorldTyped
<1>2. /\ file \in FileType /\ file.id = disk[f].id /\ file.born = disk[f].born
      /\ file.lines = disk[f].lines /\ file.used = disk[f].used /\ file.again = disk[f].again
      /\ file.mtime = disk[f].mtime /\ file.half = disk[f].half
      /\ file.compacted /\ file.thread = 0
    BY <1>1 DEF FileType
<1>3. disk' = [disk EXCEPT ![f] = file] /\ truth' = truth /\ now' = now
      /\ UNCHANGED <<published, failures>> /\ scan' = scan /\ disk[f].thread > 0
    BY <1>1 DEF Compact, FileType
<1>4. Exists(f)
    BY <1>3, NoFileTyped DEF WorldInv, Honest, Dates, Exists, NoFile
<1> HIDE DEF file
<1>5. Size(disk[f]) = Size(file) /\ Info(disk[f]) = Info(file)
    BY <1>2 DEF Size, Info
<1>6. Size(disk[f]) \in Nat
    BY <1>1, LenProperties DEF FileType, Size
<1>7. Honest(disk[f], truth[f], now) /\ disk[f].id # 0
    BY <1>4 DEF WorldInv, Exists
<1>8. Honest(file, truth[f], now) /\ Kept(disk[f], truth[f], file, truth[f], now)
    BY <1>1, <1>2, <1>5, <1>6, <1>7, HonestSameLines
<1>9. truth' = [truth EXCEPT ![f] = truth[f]] /\ disk'[f] = file /\ truth'[f] = truth[f]
    BY <1>1, <1>3
<1>10. Moves(f)
    BY <1>2, <1>4, <1>8, <1>9 DEF Moves
<1> QED
    BY <1>1, <1>2, <1>3, <1>8, <1>9, <1>10, OneFile

LEMMA HalfLineStep ==
    ASSUME TypeOK, WorldInv, NEW f \in Files, HalfLine(f)
    PROVE  Moved /\ WorldInv'
<1> DEFINE half == [disk[f] EXCEPT !.half = TRUE]
<1>1. disk \in [Files -> FileType] /\ truth \in [Files -> SaidType] /\ disk[f] \in FileType
      /\ truth[f] \in SaidType /\ now \in Nat /\ now \in 0 .. MaxWrites
    BY WorldTyped
<1>2. Exists(f) /\ disk[f].id # 0 /\ ~disk[f].half /\ truth' = truth /\ scan' = scan
    BY DEF HalfLine, Exists
<1>3. /\ half \in FileType /\ half.id = disk[f].id /\ half.born = disk[f].born
      /\ half.lines = disk[f].lines /\ half.used = disk[f].used /\ half.half
      /\ half.again = disk[f].again
      /\ half.compacted = disk[f].compacted /\ half.thread = disk[f].thread
    BY <1>1 DEF FileType
<1>4. Touch(f, half)
    BY DEF HalfLine
<1> HIDE DEF half
<1>5. PICK file \in FileType :
            /\ disk' = [disk EXCEPT ![f] = file]
            /\ now' = now + 1 /\ now' \in 0 .. MaxWrites
            /\ UNCHANGED <<published, failures>>
            /\ file.id = half.id /\ file.born = half.born /\ file.mtime = now + 1
            /\ file.lines = half.lines /\ file.half = half.half
            /\ file.used = half.used /\ file.thread = half.thread
            /\ file.again = half.again /\ file.compacted = half.compacted
    BY <1>2, <1>3, <1>4, TouchStep
<1>6. Size(disk[f]) <= Size(file)
  <2>1. Len(disk[f].lines) \in Nat
      BY <1>1, LenProperties DEF FileType
  <2> QED
      BY <1>2, <1>3, <1>5, <2>1 DEF Size
<1>7. Honest(disk[f], truth[f], now)
    BY DEF WorldInv
<1>8. Honest(file, truth[f], now') /\ Kept(disk[f], truth[f], file, truth[f], now)
    BY <1>1, <1>2, <1>3, <1>5, <1>6, <1>7, HonestSameLines
<1>9. truth' = [truth EXCEPT ![f] = truth[f]] /\ disk'[f] = file /\ truth'[f] = truth[f]
    BY <1>1, <1>2, <1>5
<1>10. Moves(f)
    BY <1>2, <1>5, <1>8, <1>9 DEF Moves
<1> QED
    BY <1>1, <1>2, <1>5, <1>8, <1>9, <1>10, OneFile

LEMMA DeleteStep ==
    ASSUME TypeOK, WorldInv, NEW f \in Files, Delete(f)
    PROVE  Moved /\ WorldInv'
<1>1. disk \in [Files -> FileType] /\ truth \in [Files -> SaidType]
      /\ now \in Nat /\ now \in 0 .. MaxWrites
    BY WorldTyped
<1>2. /\ disk' = [disk EXCEPT ![f] = NoFile] /\ truth' = [truth EXCEPT ![f] = <<>>]
      /\ now' = now + 1 /\ now' \in 0 .. MaxWrites /\ scan' = scan
      /\ UNCHANGED <<published, failures>> /\ ~OpenNow(f)
    BY <1>1, MonitorAssumption DEF Delete, Touch
<1>3. Moves(f)
    BY <1>1, <1>2 DEF Moves
<1>4. Honest(NoFile, <<>>, now') /\ <<>> \in SaidType
    BY <1>1, <1>2, NoFileHonest
<1> QED
    BY <1>2, <1>3, <1>4, NoFileTyped, OneFile

(* A line is completed.                                                    *)
LEMMA AppendStep ==
    ASSUME TypeOK, WorldInv, NEW f \in Files, Exists(f),
           NEW file \in FileType, file.id = disk[f].id, file.born = disk[f].born,
           file.lines = disk[f].lines, file.compacted = disk[f].compacted,
           NEW line \in LineType, line.time = now + 1, line.n \in 0 .. now + 1,
           AppendLine(f, file, line),
           NEW q, q = ParseLine(After(f), line), Fits(q, file)
    PROVE  Moved /\ WorldInv'
<1> DEFINE long == [file EXCEPT !.lines = Append(@, line), !.half = FALSE]
           said == Append(truth[f], [parse |-> q, used |-> file.used, again |-> file.again])
<1>1. disk \in [Files -> FileType] /\ truth \in [Files -> SaidType] /\ disk[f] \in FileType
      /\ truth[f] \in SaidType /\ now \in Nat /\ disk[f].id # 0
    BY WorldTyped DEF Exists
<1>2. /\ After(f) = Parsed(truth[f], Len(truth[f])) /\ After(f) \in ParseType
      /\ q \in ParseType
    BY AfterParsed, ParseTyped
<1>3. Append(file.lines, line) \in Seq(LineType)
    BY AppendProperties DEF FileType
<1>4. /\ long \in FileType /\ long.id = file.id /\ long.born = file.born
      /\ long.lines = Append(disk[f].lines, line) /\ long.used = file.used
      /\ long.compacted = file.compacted /\ long.thread = file.thread
      /\ long.again = file.again
    BY <1>3 DEF FileType
<1>5. Touch(f, long) /\ truth' = [truth EXCEPT ![f] = said] /\ scan' = scan
    BY <1>1 DEF AppendLine, Said
<1> HIDE DEF long
<1>6. PICK file2 \in FileType :
            /\ disk' = [disk EXCEPT ![f] = file2]
            /\ now' = now + 1 /\ now' \in 0 .. MaxWrites
            /\ UNCHANGED <<published, failures>>
            /\ file2.id = long.id /\ file2.born = long.born /\ file2.mtime = now + 1
            /\ file2.lines = long.lines /\ file2.half = long.half
            /\ file2.used = long.used /\ file2.thread = long.thread
            /\ file2.again = long.again /\ file2.compacted = long.compacted
    BY <1>1, <1>4, <1>5, TouchStep
<1>7. Honest(disk[f], truth[f], now)
    BY DEF WorldInv
<1>8. said = Append(truth[f], [parse |-> q, used |-> file2.used, again |-> file2.again])
    BY <1>4, <1>6
<1> HIDE DEF said
<1>9. /\ said \in SaidType
      /\ Honest(file2, said, now + 1)
      /\ Kept(disk[f], truth[f], file2, said, now)
  <2>1. file2.id = disk[f].id /\ file2.born = disk[f].born
        /\ file2.lines = Append(disk[f].lines, line) /\ file2.compacted = disk[f].compacted
        /\ file2.used = file.used /\ file2.thread = file.thread /\ file2.again = file.again
      BY <1>4, <1>6
  <2>2. /\ file2 \in FileType /\ file2.mtime = now + 1
        /\ q = ParseLine(Parsed(truth[f], Len(truth[f])), line)
        /\ Fits(q, file2)
      BY <1>2, <1>6, <2>1 DEF Fits
  <2> HIDE DEF said
  <2> QED
      BY <1>1, <1>2, <1>7, <1>8, <2>1, <2>2, HonestAppend
<1>10. disk'[f] = file2 /\ truth'[f] = said
    BY <1>1, <1>5, <1>6
<1>11. Moves(f)
    BY <1>6, <1>9, <1>10 DEF Moves
<1> QED
    BY <1>5, <1>6, <1>9, <1>11, OneFile

(* What the lines so far say of a file, for the next one.                  *)
LEMMA AfterFacts ==
    ASSUME TypeOK, WorldInv, NEW f \in Files
    PROVE  LET a == After(f)
           IN  /\ a \in ParseType /\ disk[f] \in FileType /\ now \in Nat
               /\ Fits(a, disk[f])
               /\ a.seen \subseteq 1 .. now
               /\ \A n \in 1 .. Len(disk[f].lines) :
                    Recorded(disk[f].lines[n]) => disk[f].lines[n].n \in a.seen
<1>1. Honest(disk[f], truth[f], now) /\ disk[f] \in FileType /\ now \in Nat
    BY WorldTyped DEF WorldInv
<1>2. After(f) = Parsed(truth[f], Len(truth[f])) /\ After(f) \in ParseType
    BY AfterParsed
<1> QED
    BY <1>1, <1>2 DEF Honest, Billing, Seen

LEMMA CumulativeIs ==
    ASSUME NEW p \in ParseType, NEW total \in Nat
    PROVE  /\ Cumulative(p, total).previous = total
           /\ Cumulative(p, total).seen = p.seen
           /\ Cumulative(p, total).billed =
                p.billed + (IF total > p.previous THEN total - p.previous ELSE 0)
BY DEF Cumulative, ParseType

(* A total bills what was used, if it is the counter of a new response;    *)
(* any other is paid for by its distance to the counter.                   *)
LEMMA CumulativeFits ==
    ASSUME NEW p \in ParseType, NEW file \in FileType, NEW file2 \in FileType, Fits(p, file),
           NEW k \in Nat, NEW e \in Nat, file2.compacted = file.compacted,
           file2.used = file.used + k, file2.thread = file.thread + k,
           file2.again = file.again + e, NEW total \in Nat,
           \/ total = file.thread + k
           \/ k = 0 /\ total - file.thread <= e /\ file.thread - total <= e
    PROVE  Fits(Cumulative(p, total), file2)
<1>1. p.billed \in Nat /\ p.previous \in Nat /\ file.used \in Nat /\ file.thread \in Nat
      /\ file.again \in Nat
    BY DEF ParseType, FileType
<1> DEFINE q == Cumulative(p, total)
<1>2. /\ q.previous = total
      /\ q.billed = p.billed + (IF total > p.previous THEN total - p.previous ELSE 0)
    BY CumulativeIs
<1> HIDE DEF q
<1>3. CASE total > p.previous
  <2>1. q.billed = p.billed + (total - p.previous)
      BY <1>2, <1>3
  <2>2. /\ q.billed <= file2.used + file2.again
        /\ q.billed + file2.thread <= file2.used + file2.again + q.previous
      BY <1>1, <1>2, <1>3, <2>1 DEF Fits
  <2>3. ~file2.compacted => /\ file2.used <= q.billed
                            /\ file2.used + q.previous <= q.billed + file2.thread
      BY <1>1, <1>2, <1>3, <2>1 DEF Fits
  <2> QED
      BY <2>2, <2>3 DEF Fits, q
<1>4. CASE total <= p.previous
  <2>1. q.billed = p.billed
      BY <1>1, <1>2, <1>4
  <2>2. /\ q.billed <= file2.used + file2.again
        /\ q.billed + file2.thread <= file2.used + file2.again + q.previous
      BY <1>1, <1>2, <1>4, <2>1 DEF Fits
  <2>3. ~file2.compacted => /\ file2.used <= q.billed
                            /\ file2.used + q.previous <= q.billed + file2.thread
      BY <1>1, <1>2, <1>4, <2>1 DEF Fits
  <2> QED
      BY <2>2, <2>3 DEF Fits, q
<1> QED
    BY <1>1, <1>3, <1>4

LEMMA LineTyped ==
    ASSUME TypeOK, NEW kind \in {"usage", "bare", "count", "meta"} \cup Activity, NEW total \in Nat
    PROVE  /\ Line(kind, total) \in LineType /\ Line(kind, total).time = now + 1
           /\ Line(kind, total).n = now + 1 /\ Line(kind, total).kind = kind
           /\ Line(kind, total).total = total
BY WorldTyped DEF Line, LineType

(* A record or a token_count: k new tokens are used, and e are said again. *)
LEMMA RecordStep ==
    ASSUME TypeOK, WorldInv, NEW f \in Files, NEW file \in FileType,
           NEW line \in LineType, line.time = now + 1, line.n \in 0 .. now + 1,
           NEW k \in Nat, NEW e \in Nat,
           file.id = disk[f].id, file.born = disk[f].born, file.lines = disk[f].lines,
           file.compacted = disk[f].compacted, file.used = disk[f].used + k,
           file.thread = disk[f].thread + k, file.again = disk[f].again + e,
           AppendLine(f, file, line), line.kind \in {"usage", "bare", "count"},
           line.kind = "count" \/ line.n \notin After(f).seen,
           line.kind = "bare" => k + e = 1,
           line.kind # "bare" =>
                \/ line.total = disk[f].thread + k
                \/ /\ k = 0 /\ line.total - disk[f].thread <= e
                   /\ disk[f].thread - line.total <= e
    PROVE  Moved /\ WorldInv'
<1> DEFINE a == After(f)
           q == ParseLine(a, line)
<1>1. a \in ParseType /\ disk[f] \in FileType /\ now \in Nat /\ Fits(a, disk[f])
    BY AfterFacts
<1>2. \/ line.kind = "bare"
      \/ line.total = disk[f].thread + k
      \/ k = 0 /\ line.total - disk[f].thread <= e /\ disk[f].thread - line.total <= e
    OBVIOUS
<1>3. Exists(f) /\ line.total \in Nat
    BY DEF AppendLine, LineType
<1> HIDE DEF a, q
<1>4. Remember(a, line) \in ParseType /\ Fits(Remember(a, line), disk[f])
      /\ Remember(a, line).billed = a.billed /\ Remember(a, line).previous = a.previous
    BY <1>1 DEF Remember, ParseType, LineType, Fits
<1>5. Fits(q, file)
  <2>1. CASE line.kind = "usage"
    <3>1. q = Cumulative(Remember(a, line), line.total)
        BY <2>1 DEF ParseLine, a, q
    <3> DEFINE p == Remember(a, line)
    <3>2. p \in ParseType /\ Fits(p, disk[f])
        BY <1>4
    <3> HIDE DEF p
    <3>3. Fits(Cumulative(p, line.total), file)
        BY <1>1, <1>2, <1>3, <2>1, <3>2, CumulativeFits
    <3> QED
        BY <3>1, <3>3 DEF p
  <2>2. CASE line.kind = "count"
    <3>1. q = Cumulative(a, line.total)
        BY <2>2 DEF ParseLine, q
    <3> QED
        BY <1>1, <1>2, <1>3, <2>2, <3>1, CumulativeFits
  <2>3. CASE line.kind = "bare"
    <3>1. q = [Remember(a, line) EXCEPT !.billed = @ + 1, !.previous = @ + 1]
        BY <2>3 DEF ParseLine, a, q
    <3>2. q.billed = a.billed + 1 /\ q.previous = a.previous + 1
        BY <1>4, <3>1 DEF ParseType
    <3>3. a.billed \in Nat /\ a.previous \in Nat /\ disk[f].used \in Nat
          /\ disk[f].thread \in Nat /\ disk[f].again \in Nat
        BY <1>1 DEF ParseType, FileType
    <3> QED
        BY <1>1, <1>2, <2>3, <3>2, <3>3 DEF Fits
  <2> QED
      BY <2>1, <2>2, <2>3
<1> QED
    BY <1>3, <1>5, AppendStep DEF a, q

LEMMA RespondStep ==
    ASSUME TypeOK, WorldInv, NEW f \in Files, NEW kind \in {"usage", "bare", "count"},
           NEW named \in BOOLEAN, Respond(f, kind, named)
    PROVE  Moved /\ WorldInv'
<1>1. disk[f] \in FileType /\ now \in Nat /\ After(f).seen \subseteq 1 .. now
    BY AfterFacts
<1>2. disk[f].used \in Nat /\ disk[f].thread \in Nat /\ disk[f].again \in Nat
    BY <1>1 DEF FileType
<1> DEFINE file == [disk[f] EXCEPT !.used = @ + 1, !.thread = @ + 1]
           new == Line(kind, disk[f].thread + 1)
           line == IF named THEN new ELSE Nameless(new)
<1>3. /\ file \in FileType /\ file.thread = disk[f].thread + 1
      /\ file.id = disk[f].id /\ file.born = disk[f].born /\ file.lines = disk[f].lines
      /\ file.compacted = disk[f].compacted /\ file.used = disk[f].used + 1
      /\ file.again = disk[f].again + 0
  <2> DEFINE u == disk[f].used + 1
             v == disk[f].thread + 1
  <2>1. u \in Nat /\ v \in Nat /\ u = disk[f].used + 1 /\ v = disk[f].thread + 1
      BY <1>2
  <2>2. file = [disk[f] EXCEPT !.used = u, !.thread = v]
      OBVIOUS
  <2> HIDE DEF file, u, v
  <2>3. /\ file \in FileType /\ file.used = u /\ file.thread = v
        /\ file.id = disk[f].id /\ file.born = disk[f].born /\ file.lines = disk[f].lines
        /\ file.compacted = disk[f].compacted /\ file.again = disk[f].again
      BY <1>1, <2>1, <2>2 DEF FileType
  <2> QED
      BY <1>2, <2>1, <2>3
<1>4. /\ new \in LineType /\ new.time = now + 1 /\ new.n = now + 1 /\ new.kind = kind
      /\ new.total = disk[f].thread + 1
    BY <1>2, LineTyped
<1>5. AppendLine(f, file, line)
    BY <1>3 DEF Respond
<1> HIDE DEF new, file
<1>6. /\ line \in LineType /\ line.time = now + 1 /\ line.n \in {0, now + 1}
      /\ line.kind = kind /\ line.total = disk[f].thread + 1
    BY <1>1, <1>4 DEF Nameless, LineType
<1> HIDE DEF line
<1>7. line.n \in 0 .. now + 1 /\ line.n \notin After(f).seen
    BY <1>1, <1>6
<1> QED
    BY <1>3, <1>5, <1>6, <1>7, RecordStep

(* A line that changes nothing of what was billed and the counter.         *)
LEMMA NeutralStep ==
    ASSUME TypeOK, WorldInv, NEW f \in Files, NEW line \in LineType, line.time = now + 1,
           line.n \in 0 .. now + 1, AppendLine(f, disk[f], line),
           NEW q, q = ParseLine(After(f), line),
           q.billed = After(f).billed, q.previous = After(f).previous
    PROVE  Moved /\ WorldInv'
<1>1. disk[f] \in FileType /\ Fits(After(f), disk[f])
    BY AfterFacts
<1>2. Exists(f) /\ Fits(q, disk[f])
    BY <1>1 DEF AppendLine, Fits
<1> QED
    BY <1>1, <1>2, AppendStep

LEMMA RepeatStep ==
    ASSUME TypeOK, WorldInv, NEW f \in Files, Repeat(f)
    PROVE  Moved /\ WorldInv'
<1> DEFINE a == After(f)
<1>1. /\ a \in ParseType /\ disk[f] \in FileType /\ now \in Nat
      /\ a.seen \subseteq 1 .. now
      /\ \A n \in 1 .. Len(disk[f].lines) :
            Recorded(disk[f].lines[n]) => disk[f].lines[n].n \in a.seen
    BY AfterFacts
<1>2. disk[f].thread \in Nat /\ disk[f].used \in Nat /\ disk[f].again \in Nat
    BY <1>1 DEF FileType
<1> HIDE DEF a
<1>3. CASE AppendLine(f, disk[f], Line("count", disk[f].thread))
  <2> DEFINE line == Line("count", disk[f].thread)
  <2>1. line \in LineType /\ line.time = now + 1 /\ line.kind = "count"
        /\ line.total = disk[f].thread /\ line.n = now + 1
      BY <1>2, LineTyped
  <2>2. AppendLine(f, disk[f], line)
      BY <1>3
  <2> HIDE DEF line
  <2>3. disk[f].used = disk[f].used + 0 /\ disk[f].thread = disk[f].thread + 0
        /\ disk[f].again = disk[f].again + 0
      BY <1>2
  <2>4. line.n \in 0 .. now + 1 /\ line.total = disk[f].thread + 0
      BY <1>1, <1>2, <2>1
  <2> QED
      BY <1>1, <2>1, <2>2, <2>3, <2>4, RecordStep
<1>4. ASSUME NEW old \in ToSet(disk[f].lines), old.kind \in {"usage", "bare"},
             AppendLine(f, [disk[f] EXCEPT !.again = @ + SaidAgain(f, old)],
                           [Line(old.kind, old.total) EXCEPT !.n = old.n])
      PROVE  Moved /\ WorldInv'
  <2> DEFINE line == [Line(old.kind, old.total) EXCEPT !.n = old.n]
             e == SaidAgain(f, old)
             file == [disk[f] EXCEPT !.again = @ + e]
  <2>1. PICK n \in 1 .. Len(disk[f].lines) : old = disk[f].lines[n]
    <3>1. DOMAIN disk[f].lines = 1 .. Len(disk[f].lines)
        BY <1>1, LenProperties DEF FileType
    <3> QED
        BY <3>1 DEF ToSet
  <2>2. old \in LineType
      BY <1>1, <2>1, ElementOfSeq DEF FileType
  <2>3. old.n \in Nat /\ old.total \in Nat /\ (old.n # 0 => old.n \in a.seen)
      BY <1>1, <1>4, <2>1, <2>2 DEF LineType, Recorded
  <2>4. /\ line \in LineType /\ line.time = now + 1 /\ line.kind = old.kind
        /\ line.n = old.n /\ line.total = old.total
    <3>1. /\ Line(old.kind, old.total) \in LineType
          /\ Line(old.kind, old.total).time = now + 1
          /\ Line(old.kind, old.total).kind = old.kind
          /\ Line(old.kind, old.total).total = old.total
        BY <1>4, <2>3, LineTyped
    <3> QED
        BY <2>3, <3>1 DEF LineType
  <2>5. line.n \in 0 .. now + 1
      BY <1>1, <2>3, <2>4
  <2>6. e \in Nat /\ (old.n # 0 => e = 0)
        /\ (old.n = 0 /\ old.kind = "bare" => e = 1)
        /\ (old.n = 0 /\ old.kind = "usage" =>
                old.total - disk[f].thread <= e /\ disk[f].thread - old.total <= e)
      BY <1>2, <2>3 DEF SaidAgain, Distance
  <2>7. AppendLine(f, file, line)
      BY <1>4
  <2> HIDE DEF line, e
  <2>8. CASE old.n # 0
    <3>1. file = disk[f]
        BY <1>1, <1>2, <2>6, <2>8 DEF FileType
    <3>2. ParseLine(a, line) = a
        BY <1>4, <2>3, <2>4, <2>8 DEF ParseLine
    <3> QED
        BY <2>4, <2>5, <2>7, <3>1, <3>2, NeutralStep DEF a
  <2>9. CASE old.n = 0
    <3>1. /\ file \in FileType
          /\ file.id = disk[f].id /\ file.born = disk[f].born /\ file.lines = disk[f].lines
          /\ file.compacted = disk[f].compacted /\ file.used = disk[f].used + 0
          /\ file.thread = disk[f].thread + 0 /\ file.again = disk[f].again + e
      <4>1. PICK u \in Nat : u = disk[f].again + e
          BY <1>2, <2>6
      <4>2. file = [disk[f] EXCEPT !.again = u]
          BY <4>1
      <4> HIDE DEF file
      <4>3. /\ file \in FileType /\ file.again = u
            /\ file.id = disk[f].id /\ file.born = disk[f].born /\ file.lines = disk[f].lines
            /\ file.compacted = disk[f].compacted /\ file.used = disk[f].used
            /\ file.thread = disk[f].thread
          BY <1>1, <4>2 DEF FileType
      <4> QED
          BY <1>2, <4>1, <4>3
    <3>2. line.n \notin After(f).seen
        BY <1>1, <2>4, <2>9 DEF a
    <3>3. (line.kind = "bare" => 0 + e = 1) /\ line.kind \in {"usage", "bare", "count"}
          /\ (line.kind # "bare" => line.total - disk[f].thread <= e
                                    /\ disk[f].thread - line.total <= e)
        BY <1>4, <2>4, <2>6, <2>9
    <3> HIDE DEF file
    <3> QED
        BY <2>4, <2>5, <2>6, <2>7, <3>1, <3>2, <3>3, RecordStep
  <2> QED
      BY <2>8, <2>9
<1> QED
    BY <1>3, <1>4 DEF Repeat

LEMMA ActivityStep ==
    ASSUME TypeOK, WorldInv, NEW f \in Files, NEW kind \in Activity,
           AppendLine(f, disk[f], Line(kind, 0))
    PROVE  Moved /\ WorldInv'
<1> DEFINE a == After(f)
           line == Line(kind, 0)
<1>1. a \in ParseType /\ now \in Nat
    BY AfterFacts
<1>2. line \in LineType /\ line.time = now + 1 /\ line.kind = kind /\ line.n = now + 1
    BY LineTyped
<1>3. kind \in {"turn", "call", "item", "bad"}
    BY MonitorAssumption
<1>4. AppendLine(f, disk[f], line)
    OBVIOUS
<1> HIDE DEF a, line
<1>5. ParseLine(a, line).previous = a.previous /\ ParseLine(a, line).billed = a.billed
    BY <1>1, <1>2, <1>3 DEF ParseLine, ParseType
<1>6. line.n \in 0 .. now + 1
    BY <1>1, <1>2
<1> QED
    BY <1>2, <1>4, <1>5, <1>6, NeutralStep DEF a

(* New content of a file.                                                  *)
LEMMA AnewStep ==
    ASSUME TypeOK, WorldInv, NEW f \in Files,
           NEW file \in FileType, file.id # 0, file.born = now + 1, ~file.compacted,
           file.used = file.thread, Touch(f, file),
           NEW said, truth' = [truth EXCEPT ![f] = said],
           \/ file.lines = <<>> /\ said = <<>> /\ file.used = 0
           \/ \E line \in LineType : \E q \in ParseType :
                /\ file.lines = <<line>> /\ line.time = now + 1 /\ line.n \in 0 .. now + 1
                /\ q = ParseLine(EmptyParse, line)
                /\ said = <<[parse |-> q, used |-> file.used, again |-> file.again]>>
                /\ q.billed = file.used /\ q.previous = file.used,
           scan' = scan \/ scan' = [scan EXCEPT !.parsed.torn = TRUE],
           OpenNow(f) => scan'.parsed.torn
    PROVE  Moved /\ WorldInv'
<1>1. disk \in [Files -> FileType] /\ truth \in [Files -> SaidType] /\ now \in Nat
    BY WorldTyped
<1>2. PICK file2 \in FileType :
            /\ disk' = [disk EXCEPT ![f] = file2]
            /\ now' = now + 1 /\ now' \in 0 .. MaxWrites
            /\ UNCHANGED <<published, failures>>
            /\ file2.id = file.id /\ file2.born = file.born /\ file2.mtime = now + 1
            /\ file2.lines = file.lines /\ file2.half = file.half
            /\ file2.used = file.used /\ file2.thread = file.thread
            /\ file2.again = file.again /\ file2.compacted = file.compacted
    BY TouchStep
<1>3. said \in SaidType /\ Honest(file2, said, now + 1) /\ Anew(file2, now)
  <2>1. \/ file2.lines = <<>> /\ said = <<>> /\ file2.used = 0
        \/ \E line \in LineType : \E q \in ParseType :
                /\ file2.lines = <<line>> /\ line.time = now + 1 /\ line.n \in 0 .. now + 1
                /\ q = ParseLine(EmptyParse, line)
                /\ said = <<[parse |-> q, used |-> file2.used, again |-> file2.again]>>
                /\ q.billed = file2.used /\ q.previous = file2.used
      BY <1>2
  <2>2. file2.id # 0 /\ file2.born = now + 1 /\ ~file2.compacted
        /\ file2.used = file2.thread /\ file2.mtime = now + 1
      BY <1>2
  <2> QED
      BY <1>1, <2>1, <2>2, HonestBegin
<1>4. disk'[f] = file2 /\ truth'[f] = said
    BY <1>1, <1>2
<1>5. Moves(f)
    BY <1>2, <1>3, <1>4 DEF Moves
<1> QED
    BY <1>2, <1>3, <1>5, OneFile

LEMMA BeginStep ==
    ASSUME TypeOK, WorldInv, NEW f \in Files, NEW id \in Nat, id # 0, Begin(f, id),
           scan' = scan \/ scan' = [scan EXCEPT !.parsed.torn = TRUE],
           OpenNow(f) => scan'.parsed.torn
    PROVE  Moved /\ WorldInv'
<1> DEFINE file == [NoFile EXCEPT !.id = id, !.born = now + 1]
           Of(line, used) == [file EXCEPT !.lines = <<line>>, !.used = used, !.thread = used]
<1>1. now \in Nat /\ now + 1 \in Nat /\ 1 \in Nat /\ 0 \in Nat
    BY WorldTyped
<1>2. /\ file \in FileType /\ file.id = id /\ file.born = now + 1 /\ ~file.compacted
      /\ file.lines = <<>> /\ file.used = 0 /\ file.thread = 0 /\ file.again = 0
    BY <1>1, NoFileTyped DEF FileType, NoFile
<1>3. ASSUME NEW line \in LineType, NEW used \in Nat
      PROVE  /\ Of(line, used) \in FileType
             /\ Of(line, used).id = id /\ Of(line, used).born = now + 1
             /\ Of(line, used).lines = <<line>> /\ Of(line, used).used = used
             /\ Of(line, used).thread = used /\ ~Of(line, used).compacted
  <2>1. <<line>> \in Seq(LineType)
      OBVIOUS
  <2> HIDE DEF file
  <2> QED
      BY <1>2, <2>1 DEF FileType
<1>4. EmptyParse \in ParseType /\ EmptyParse.billed = 0 /\ EmptyParse.previous = 0
      /\ EmptyParse.seen = {}
    BY EmptyTyped DEF EmptyParse
<1>5. ASSUME NEW line \in LineType, NEW used \in Nat, line.time = now + 1, line.n = now + 1,
             \/ line.kind = "meta" /\ used = 0
             \/ line.kind = "usage" /\ line.total = 1 /\ used = 1,
             Touch(f, Of(line, used)),
             truth' = [truth EXCEPT ![f] = <<Said(EmptyParse, line, Of(line, used))>>]
      PROVE  Moved /\ WorldInv'
  <2> DEFINE q == ParseLine(EmptyParse, line)
             new == Of(line, used)
             said == <<Said(EmptyParse, line, new)>>
  <2>1. q.billed = used /\ q.previous = used
    <3>1. CASE line.kind = "meta" /\ used = 0
      <4>1. q = EmptyParse
          BY <3>1 DEF ParseLine
      <4> HIDE DEF q
      <4> QED
          BY <1>4, <3>1, <4>1
    <3>2. CASE line.kind = "usage" /\ line.total = 1 /\ used = 1
      <4> DEFINE b == Remember(EmptyParse, line)
      <4>1. b \in ParseType /\ b.billed = 0 /\ b.previous = 0
          BY <1>1, <1>4 DEF ParseType, Remember, LineType
      <4>2. q = Cumulative(b, 1)
          BY <1>4, <1>5, <3>2 DEF ParseLine
      <4> HIDE DEF b, q
      <4>3. q.previous = 1 /\ q.seen = b.seen
            /\ q.billed = b.billed + (IF 1 > b.previous THEN 1 - b.previous ELSE 0)
          BY <1>1, <4>1, <4>2, CumulativeIs
      <4> QED
          BY <1>1, <1>5, <3>2, <4>1, <4>3
    <3> QED
        BY <1>5, <3>1, <3>2
  <2>2. q \in ParseType
      BY <1>4, ParseTyped
  <2>3. /\ new \in FileType /\ new.id = id /\ new.born = now + 1
        /\ new.lines = <<line>> /\ new.used = used
        /\ new.thread = used /\ ~new.compacted
      BY <1>3
  <2>4. Touch(f, new) /\ truth' = [truth EXCEPT ![f] = said]
      BY <1>5
  <2>5. line.n \in 0 .. now + 1
      BY <1>1, <1>5
  <2> HIDE DEF new
  <2>6. said = <<[parse |-> q, used |-> new.used, again |-> new.again]>>
      BY DEF Said
  <2>7. q = ParseLine(EmptyParse, line)
      OBVIOUS
  <2> HIDE DEF q, said
  <2>8. \E l \in LineType : \E p \in ParseType :
            /\ new.lines = <<l>> /\ l.time = now + 1 /\ l.n \in 0 .. now + 1
            /\ p = ParseLine(EmptyParse, l)
            /\ said = <<[parse |-> p, used |-> new.used, again |-> new.again]>>
            /\ p.billed = new.used /\ p.previous = new.used
    <3> WITNESS line \in LineType
    <3> WITNESS q \in ParseType
    <3> QED
        BY <1>5, <2>1, <2>3, <2>5, <2>6, <2>7
  <2>9. new.used = new.thread /\ new.id # 0 /\ new.born = now + 1 /\ ~new.compacted
      BY <2>3
  <2>10. Touch(f, new) /\ truth' = [truth EXCEPT ![f] = said] /\ new \in FileType
      BY <2>3, <2>4
  <2> QED
      BY <2>8, <2>9, <2>10, AnewStep
<1>6. CASE /\ Touch(f, Of(Line("meta", 0), 0))
           /\ truth' = [truth EXCEPT ![f] =
                            <<Said(EmptyParse, Line("meta", 0), Of(Line("meta", 0), 0))>>]
  <2>1. Line("meta", 0) \in LineType /\ Line("meta", 0).time = now + 1
        /\ Line("meta", 0).n = now + 1 /\ Line("meta", 0).kind = "meta"
      BY LineTyped
  <2> HIDE DEF Of
  <2> QED
      BY <1>1, <1>5, <1>6, <2>1
<1>7. CASE /\ Touch(f, Of(Line("usage", 1), 1))
           /\ truth' = [truth EXCEPT ![f] =
                            <<Said(EmptyParse, Line("usage", 1), Of(Line("usage", 1), 1))>>]
  <2>1. Line("usage", 1) \in LineType /\ Line("usage", 1).time = now + 1
        /\ Line("usage", 1).n = now + 1 /\ Line("usage", 1).kind = "usage"
        /\ Line("usage", 1).total = 1
      BY LineTyped
  <2> HIDE DEF Of
  <2> QED
      BY <1>1, <1>5, <1>7, <2>1
<1>8. CASE Touch(f, [file EXCEPT !.half = TRUE]) /\ truth' = [truth EXCEPT ![f] = <<>>]
  <2> DEFINE new == [file EXCEPT !.half = TRUE]
  <2> HIDE DEF file
  <2>1. /\ new \in FileType /\ new.id = id /\ new.born = now + 1
        /\ new.lines = <<>> /\ new.used = 0 /\ new.thread = 0 /\ ~new.compacted
      BY <1>2 DEF FileType
  <2>2. Touch(f, new)
      BY <1>8
  <2> HIDE DEF new
  <2> QED
      BY <1>8, <2>1, <2>2, AnewStep
<1> QED
    BY <1>6, <1>7, <1>8 DEF Begin

(* Whatever Codex does.                                                    *)
LEMMA CodexStep ==
    ASSUME TypeOK, WorldInv, NEW f \in Files, Codex(f)
    PROVE  Moved /\ WorldInv'
<1>1. now \in Nat /\ disk[f] \in FileType /\ disk[f].id \in Nat
    BY WorldTyped DEF FileType
<1>2. CASE Replace(f)
    BY <1>1, <1>2, BeginStep DEF Replace
<1>3. CASE Rewrite(f)
  <2>1. OpenNow(f) => scan'.parsed.torn
      BY <1>3 DEF Rewrite, TypeOK, SessionType
  <2> QED
      BY <1>1, <1>3, <2>1, BeginStep DEF Rewrite, Exists
<1>4. CASE \/ \E kind \in {"usage", "bare"}, named \in BOOLEAN : Respond(f, kind, named)
           \/ Respond(f, "count", TRUE)
    BY <1>4, RespondStep
<1>5. CASE \E kind \in Activity : AppendLine(f, disk[f], Line(kind, 0))
    BY <1>5, ActivityStep
<1> QED
    BY <1>2, <1>3, <1>4, <1>5, DeleteStep, HalfLineStep, RepeatStep, CompactStep DEF Codex

----------------------------------------------------------------------------
(* Sessions.                                                               *)

(* A session says what its file says, of the content it was read from; what*)
(* was hashed dates that content.  "exact": with no error but those of the *)
(* file.                                                                   *)
Says(s, said, exact) ==
    /\ s.offset <= Len(said)
    /\ Agrees(s.parse, Finish(Parsed(said, s.offset)))
    /\ s.base = Parsed(said, s.offset).activities
    /\ exact => s.parse.errors = Parsed(said, s.offset).errors
FirstHashed(s) == s.hashes[1][1]
Sound(s, file, said, t, exact) ==
    ~s.torn =>
        /\ s.offset = 0 => Agrees(s.parse, EmptyParse) /\ s.base = 0
        /\ s.offset > 0 =>
            /\ s.info.born \in 1 .. t /\ FirstHashed(s).time \in 0 .. t
            /\ s.info.born = file.born => Says(s, said, exact)
            /\ s.info.born = file.born \/ file.id = 0 \/ FirstHashed(s).time < file.born

(* The session that is being read.                                         *)
Reading(s, file, said, exact) ==
    /\ s.info.id # 0 /\ 2 * s.offset <= s.info.size
    /\ ~s.torn =>
        /\ file.id # 0 /\ s.info.born = file.born /\ s.info.size <= Size(file)
        /\ s.offset <= Len(said)
        /\ Agrees(s.parse, Parsed(said, s.offset))
        /\ exact => s.parse.errors = Parsed(said, s.offset).errors

LEMMA SizeTyped ==
    ASSUME NEW file \in FileType
    PROVE  Size(file) \in Nat /\ Info(file) \in InfoType /\ Len(file.lines) \in Nat
           /\ Size(file) \div 2 = Len(file.lines)
<1>1. Len(file.lines) \in Nat
    BY LenProperties DEF FileType
<1>2. CASE file.half
  <2>1. Size(file) = 2 * Len(file.lines) + 1
      BY <1>2 DEF Size
  <2> QED
      BY <1>1, <2>1 DEF Info, InfoType, FileType
<1>3. CASE ~file.half
  <2>1. Size(file) = 2 * Len(file.lines)
      BY <1>1, <1>3 DEF Size
  <2> QED
      BY <1>1, <2>1 DEF Info, InfoType, FileType
<1> QED
    BY <1>2, <1>3

LEMMA SoundKept ==
    ASSUME NEW s \in SessionType, NEW file \in FileType, NEW file2 \in FileType,
           NEW said \in SaidType, NEW said2 \in SaidType, NEW t \in Nat, NEW u \in {t, t + 1},
           NEW exact \in BOOLEAN, Sound(s, file, said, t, exact), Kept(file, said, file2, said2, t)
    PROVE  Sound(s, file2, said2, u, exact)
<1>1. Len(said) \in Nat /\ Len(said2) \in Nat /\ s.offset \in Nat
    BY LenProperties DEF SaidType, SessionType
<1>2. ASSUME Says(s, said, exact), s.offset > 0 PROVE Says(s, said2, exact)
  <2>1. s.offset \in 1 .. Len(said)
      BY <1>1, <1>2 DEF Says
  <2>2. Parsed(said2, s.offset) = Parsed(said, s.offset)
      BY <1>1, <2>1 DEF Kept, Parsed
  <2> QED
      BY <1>1, <1>2, <2>2 DEF Says, Kept
<1>3. 1 .. t \subseteq 1 .. u /\ 0 .. t \subseteq 0 .. u
    OBVIOUS
<1> QED
    BY <1>1, <1>2, <1>3 DEF Sound, Kept

LEMMA SoundAnew ==
    ASSUME NEW s \in SessionType, NEW file, NEW file2 \in FileType, NEW said, NEW said2,
           NEW t \in Nat, NEW exact, Sound(s, file, said, t, exact), Anew(file2, t)
    PROVE  Sound(s, file2, said2, t + 1, exact)
<1>1. file2.born = t + 1 /\ s.offset \in Nat
    BY DEF Anew, SessionType
<1>2. CASE s.torn
    BY <1>2 DEF Sound
<1>3. CASE ~s.torn /\ s.offset = 0
    BY <1>3 DEF Sound
<1>4. CASE ~s.torn /\ s.offset > 0
  <2>1. s.info.born \in 1 .. t /\ FirstHashed(s).time \in 0 .. t
      BY <1>4 DEF Sound
  <2>2. s.info.born \in 1 .. t + 1 /\ FirstHashed(s).time \in 0 .. t + 1
        /\ s.info.born # t + 1 /\ FirstHashed(s).time < t + 1
      BY <2>1
  <2> QED
      BY <1>1, <1>4, <2>2 DEF Sound
<1> QED
    BY <1>1, <1>2, <1>3, <1>4

LEMMA SoundGone ==
    ASSUME NEW s \in SessionType, NEW file, NEW said, NEW said2, NEW t \in Nat,
           NEW u \in {t, t + 1}, NEW exact, Sound(s, file, said, t, exact)
    PROVE  Sound(s, NoFile, said2, u, exact)
BY DEF Sound, NoFile

LEMMA SoundWeaker ==
    ASSUME NEW s, NEW file, NEW said, NEW t, NEW exact, Sound(s, file, said, t, exact)
    PROVE  Sound(s, file, said, t, FALSE)
BY DEF Sound, Says

LEMMA SoundNone ==
    ASSUME NEW file, NEW said, NEW t, NEW exact
    PROVE  NoSession \in SessionType /\ Sound(NoSession, file, said, t, exact)
<1>1. NoFile \in FileType /\ EmptyParse \in ParseType /\ <<>> \in Seq(LineType)
    BY NoFileTyped, EmptyTyped, EmptySeq
<1>2. Info(NoFile) \in InfoType
    BY <1>1, SizeTyped
<1>3. NoSession \in SessionType
    BY <1>1, <1>2 DEF NoSession, SessionType
<1>4. Agrees(EmptyParse, EmptyParse)
    BY <1>1 DEF Agrees, ParseType
<1> QED
    BY <1>3, <1>4 DEF Sound, NoSession

LEMMA ReadingKept ==
    ASSUME NEW s \in SessionType, NEW file \in FileType, NEW file2 \in FileType,
           NEW said \in SaidType, NEW said2 \in SaidType, NEW t \in Nat, NEW exact,
           Reading(s, file, said, exact), Kept(file, said, file2, said2, t)
    PROVE  Reading(s, file2, said2, exact)
<1>1. Len(said) \in Nat /\ Len(said2) \in Nat /\ s.offset \in Nat
      /\ s.info.size \in Nat
    BY LenProperties DEF SaidType, SessionType, InfoType
<1>2. Size(file) \in Nat /\ Size(file2) \in Nat
    BY SizeTyped
<1>3. ASSUME s.offset <= Len(said) PROVE Parsed(said2, s.offset) = Parsed(said, s.offset)
    BY <1>1, <1>3 DEF Kept, Parsed
<1> QED
    BY <1>1, <1>2, <1>3 DEF Reading, Kept

(* The lines at both ends.                                                 *)
LEMMA EndsTyped ==
    ASSUME NEW lines \in Seq(LineType), NEW n \in 0 .. Len(lines)
    PROVE  /\ Ends(lines, n) \in Seq(LineType) \X Seq(LineType)
           /\ n > 0 => Ends(lines, n)[1][1] = lines[1]
<1> DEFINE w == IF n < Window THEN n ELSE Window
<1>1. Len(lines) \in Nat /\ Window \in Nat \ {0}
    BY LenProperties, MonitorAssumption
<1>2. n \in Nat /\ w \in 0 .. n /\ (n > 0 => w > 0) /\ w <= Len(lines)
    BY <1>1
<1>3. Ends(lines, n) = <<SubSeq(lines, 1, w), SubSeq(lines, n - w + 1, n)>>
    BY DEF Ends
<1> HIDE DEF w
<1>4. \A i \in 1 .. Len(lines) : lines[i] \in LineType
    BY ElementOfSeq
<1>5. /\ SubSeq(lines, 1, w) \in Seq(LineType)
      /\ \A i \in 1 .. w - 1 + 1 : SubSeq(lines, 1, w)[i] = lines[1 + i - 1]
  <2>1. \A i \in 1 .. w : lines[i] \in LineType
      BY <1>1, <1>2, <1>4
  <2> QED
      BY <1>2, <2>1, SubSeqProperties
<1>6. SubSeq(lines, n - w + 1, n) \in Seq(LineType)
  <2>1. \A i \in n - w + 1 .. n : lines[i] \in LineType
      BY <1>1, <1>2, <1>4
  <2>2. n - w + 1 \in Int
      BY <1>2
  <2> QED
      BY <1>2, <2>1, <2>2, SubSeqProperties
<1>7. n > 0 => SubSeq(lines, 1, w)[1] = lines[1]
    BY <1>2, <1>5
<1> DEFINE a == SubSeq(lines, 1, w)
           b == SubSeq(lines, n - w + 1, n)
<1>8. /\ a \in Seq(LineType) /\ b \in Seq(LineType) /\ Ends(lines, n) = <<a, b>>
      /\ n > 0 => a[1] = lines[1]
    BY <1>3, <1>5, <1>6, <1>7
<1> HIDE DEF a, b
<1> QED
    BY <1>8

(* The sessions that are published, those of the scan in progress and the  *)
(* one it reads.                                                           *)
Exact == scan.full /\ ~scan.failed
SessionInv ==
    /\ scan.at = "read" => scan.entries # <<>>
    /\ \A f \in Files :
        /\ Sound(files[f], disk[f], truth[f], now, FALSE)
        /\ Sound(scan.next[f], disk[f], truth[f], now, Exact)
        /\ OpenNow(f) => Reading(scan.parsed, disk[f], truth[f], scan.full)
ScanType ==
    [at : {"idle", "entry", "read"}, full : BOOLEAN, entries : Seq(Files), failed : BOOLEAN,
     found : [Files -> InfoType], next : [Files -> SessionType], parsed : SessionType]
Inv == TypeOK /\ WorldInv /\ SessionInv

LEMMA MovedTyped ==
    ASSUME TypeOK, Moved
    PROVE  TypeOK'
<1>1. scan' \in ScanType
  <2>1. scan \in ScanType /\ scan.parsed \in SessionType
      BY DEF TypeOK, ScanType
  <2>2. PICK torn \in SessionType : torn = [scan.parsed EXCEPT !.torn = TRUE]
      BY <2>1 DEF SessionType
  <2>3. scan' = scan \/ scan' = [scan EXCEPT !.parsed = torn]
      BY <2>1, <2>2 DEF Moved, ScanType
  <2> QED
      BY <2>1, <2>3 DEF ScanType
<1>2. now' \in 0 .. MaxWrites /\ disk' \in [Files -> FileType] /\ truth' \in [Files -> SaidType]
      /\ files' = files /\ report' = report /\ failures' = failures
    BY DEF Moved, published
<1> QED
    BY <1>1, <1>2 DEF TypeOK, ScanType, SaidType

LEMMA MovedSound ==
    ASSUME TypeOK, WorldInv, Moved, NEW f \in Files, NEW s \in SessionType,
           NEW exact \in BOOLEAN, Sound(s, disk[f], truth[f], now, exact)
    PROVE  Sound(s, disk'[f], truth'[f], now', exact)
<1>1. /\ disk[f] \in FileType /\ disk'[f] \in FileType
      /\ truth[f] \in SaidType /\ truth'[f] \in SaidType /\ now \in Nat
      /\ now' \in {now, now + 1}
    BY WorldTyped DEF Moved
<1>2. CASE disk'[f] = disk[f] /\ truth'[f] = truth[f]
  <2>1. Kept(disk[f], truth[f], disk'[f], truth'[f], now)
    <3>1. Len(truth[f]) \in Nat /\ Size(disk[f]) \in Nat
        BY <1>1, LenProperties, SizeTyped DEF SaidType
    <3> QED
        BY <1>2, <3>1 DEF Kept
  <2> QED
      BY <1>1, <2>1, SoundKept
<1>3. CASE Kept(disk[f], truth[f], disk'[f], truth'[f], now)
    BY <1>1, <1>3, SoundKept
<1>4. CASE now' = now + 1 /\ Anew(disk'[f], now)
    BY <1>1, <1>4, SoundAnew
<1>5. CASE disk'[f] = NoFile
    BY <1>1, <1>5, SoundGone
<1> QED
    BY <1>2, <1>3, <1>4, <1>5 DEF Moved, Moves

LEMMA MovedInv ==
    ASSUME Inv, Moved, WorldInv'
    PROVE  Inv'
<1>1. TypeOK'
    BY MovedTyped DEF Inv
<1>2. /\ scan \in ScanType /\ files' = files
      /\ scan' = scan \/ scan' = [scan EXCEPT !.parsed.torn = TRUE]
    BY DEF Inv, TypeOK, ScanType, Moved, published
<1>3. /\ scan'.at = scan.at /\ scan'.entries = scan.entries /\ scan'.next = scan.next
      /\ scan'.full = scan.full /\ scan'.failed = scan.failed
      /\ scan'.parsed = scan.parsed \/ scan'.parsed = [scan.parsed EXCEPT !.torn = TRUE]
    BY <1>2 DEF ScanType
<1>4. ASSUME NEW f \in Files
      PROVE  /\ Sound(files'[f], disk'[f], truth'[f], now', FALSE)
             /\ Sound(scan'.next[f], disk'[f], truth'[f], now', Exact')
  <2>1. files[f] \in SessionType /\ scan.next[f] \in SessionType /\ Exact \in BOOLEAN
        /\ Exact' = Exact
      BY <1>2, <1>3 DEF Inv, TypeOK, ScanType, Exact
  <2>2. Sound(files[f], disk[f], truth[f], now, FALSE)
        /\ Sound(scan.next[f], disk[f], truth[f], now, Exact)
      BY DEF Inv, SessionInv
  <2>3. Sound(files[f], disk'[f], truth'[f], now', FALSE)
      BY <2>1, <2>2, MovedSound DEF Inv
  <2>4. Sound(scan.next[f], disk'[f], truth'[f], now', Exact)
      BY <2>1, <2>2, MovedSound DEF Inv
  <2> QED
      BY <1>2, <1>3, <2>1, <2>3, <2>4
<1>5. ASSUME NEW f \in Files, OpenNow(f)'
      PROVE  Reading(scan'.parsed, disk'[f], truth'[f], scan'.full)
  <2>1. OpenNow(f)
      BY <1>3, <1>5 DEF OpenNow
  <2>2. Reading(scan.parsed, disk[f], truth[f], scan.full) /\ scan.parsed \in SessionType
      BY <1>2, <2>1 DEF Inv, SessionInv, ScanType
  <2>3. CASE scan'.parsed.torn
    <3>1. scan'.parsed.info = scan.parsed.info /\ scan'.parsed.offset = scan.parsed.offset
        BY <1>3, <2>2 DEF SessionType
    <3> QED
        BY <2>2, <2>3, <3>1 DEF Reading
  <2>4. CASE ~scan'.parsed.torn
    <3>1. scan'.parsed = scan.parsed
        BY <1>3, <2>2, <2>4 DEF SessionType
    <3>2. /\ disk[f] \in FileType /\ disk'[f] \in FileType
          /\ truth[f] \in SaidType /\ truth'[f] \in SaidType /\ now \in Nat
        BY WorldTyped DEF Moved, Inv
    <3>3. CASE disk'[f] = disk[f] /\ truth'[f] = truth[f]
        BY <1>3, <2>2, <3>1, <3>3
    <3>4. CASE Moves(f)
      <4>1. Kept(disk[f], truth[f], disk'[f], truth'[f], now)
          BY <2>1, <2>4, <3>4 DEF Moves
      <4> QED
          BY <1>3, <2>2, <3>1, <3>2, <4>1, ReadingKept
    <3> QED
        BY <3>3, <3>4 DEF Moved
  <2> QED
      BY <2>3, <2>4
<1>6. SessionInv'
    BY <1>3, <1>4, <1>5 DEF SessionInv, Inv
<1> QED
    BY <1>1, <1>6 DEF Inv

(* A step of the scan leaves Codex's files as they are.                    *)
LEMMA SameWorld ==
    ASSUME WorldInv, UNCHANGED world
    PROVE  WorldInv'
BY DEF WorldInv, Apart, Exists, world

LEMMA ScanTyped ==
    ASSUME TypeOK, UNCHANGED world, scan' \in ScanType, files' \in [Files -> SessionType],
           report' \in [truncated : BOOLEAN, error : BOOLEAN, found : [Files -> InfoType]],
           failures' \in 0 .. MaxFailures
    PROVE  TypeOK'
BY DEF TypeOK, ScanType, world

LEMMA Facts ==
    ASSUME Inv
    PROVE  /\ now \in Nat /\ failures \in 0 .. MaxFailures
           /\ disk \in [Files -> FileType] /\ truth \in [Files -> SaidType]
           /\ files \in [Files -> SessionType] /\ scan \in ScanType
           /\ scan.next \in [Files -> SessionType] /\ scan.parsed \in SessionType
           /\ scan.entries \in Seq(Files) /\ scan.full \in BOOLEAN /\ scan.failed \in BOOLEAN
           /\ scan.entries # <<>> => Entry \in Files
<1>1. scan \in ScanType
    BY DEF Inv, TypeOK, ScanType
<1>2. scan.entries \in Seq(Files)
    BY <1>1 DEF ScanType
<1>3. scan.entries # <<>> => Entry \in Files
    BY <1>2, HeadTailProperties DEF Entry
<1> QED
    BY <1>1, <1>2, <1>3, WorldTyped DEF Inv, TypeOK, ScanType

(* An entry gets its session, and the next one is looked at.               *)
Filed(s, failed) ==
    scan' = [scan EXCEPT !.at = "entry", !.entries = Tail(@), !.failed = failed,
                         !.parsed = NoSession, !.next[Entry] = s]

LEMMA FiledFacts ==
    ASSUME TypeOK, scan.entries # <<>>, NEW s \in SessionType, NEW failed \in BOOLEAN,
           Filed(s, failed)
    PROVE  /\ Entry \in Files /\ scan' \in ScanType
           /\ scan'.at = "entry" /\ scan'.entries = Tail(scan.entries)
           /\ scan'.full = scan.full /\ scan'.failed = failed /\ scan'.found = scan.found
           /\ scan'.next = [scan.next EXCEPT ![Entry] = s]
<1>1. scan \in ScanType
    BY DEF TypeOK, ScanType
<1>2. scan.entries \in Seq(Files) /\ scan.next \in [Files -> SessionType]
    BY <1>1 DEF ScanType
<1>3. Entry \in Files /\ Tail(scan.entries) \in Seq(Files)
    BY <1>2, HeadTailProperties DEF Entry
<1>4. NoSession \in SessionType
    BY SoundNone
<1>5. PICK next \in [Files -> SessionType] : next = [scan.next EXCEPT ![Entry] = s]
    BY <1>2
<1>6. PICK rest \in Seq(Files) : rest = Tail(scan.entries)
    BY <1>3
<1>7. scan' = [scan EXCEPT !.at = "entry", !.entries = rest, !.failed = failed,
                           !.parsed = NoSession, !.next = next]
    BY <1>1, <1>5, <1>6 DEF Filed, ScanType
<1> QED
    BY <1>1, <1>3, <1>4, <1>5, <1>6, <1>7 DEF ScanType

LEMMA FiledInv ==
    ASSUME Inv, scan.entries # <<>>, NEW s \in SessionType, NEW failed \in BOOLEAN,
           Filed(s, failed), scan.failed => failed, UNCHANGED <<world, files, report>>,
           failures' \in 0 .. MaxFailures,
           Sound(s, disk[Entry], truth[Entry], now, scan.full /\ ~failed)
    PROVE  Inv'
<1>1. /\ Entry \in Files /\ scan' \in ScanType
      /\ scan'.at = "entry" /\ scan'.full = scan.full /\ scan'.failed = failed
      /\ scan'.next = [scan.next EXCEPT ![Entry] = s]
      /\ scan.next \in [Files -> SessionType] /\ scan.full \in BOOLEAN /\ scan.failed \in BOOLEAN
    BY FiledFacts, Facts DEF Inv
<1>2. TypeOK' /\ WorldInv'
    BY <1>1, ScanTyped, SameWorld DEF Inv, TypeOK
<1>3. ASSUME NEW f \in Files
      PROVE  /\ Sound(files'[f], disk'[f], truth'[f], now', FALSE)
             /\ Sound(scan'.next[f], disk'[f], truth'[f], now', Exact')
  <2>1. Sound(files[f], disk[f], truth[f], now, FALSE)
        /\ Sound(scan.next[f], disk[f], truth[f], now, Exact)
      BY DEF Inv, SessionInv
  <2>2. Sound(scan.next[f], disk[f], truth[f], now, scan.full /\ ~failed)
    <3>1. CASE failed
        BY <2>1, <3>1, SoundWeaker
    <3>2. CASE ~failed
      <4>1. (scan.full /\ ~failed) = Exact
          BY <1>1, <3>2 DEF Exact
      <4> QED
          BY <2>1, <4>1
    <3> QED
        BY <3>1, <3>2
  <2>3. Exact' = (scan.full /\ ~failed)
      BY <1>1 DEF Exact
  <2>4. (f = Entry /\ scan'.next[f] = s) \/ scan'.next[f] = scan.next[f]
      BY <1>1
  <2> QED
      BY <2>1, <2>2, <2>3, <2>4 DEF world
<1>4. \A f \in Files : ~OpenNow(f)'
    BY <1>1 DEF OpenNow
<1> QED
    BY <1>1, <1>2, <1>3, <1>4 DEF Inv, SessionInv

(* The actions of the scan.                                                *)
LEMMA DoneIsFiled ==
    ASSUME Inv, NEW s \in SessionType, Done(s)
    PROVE  Filed(s, scan.failed)
<1>1. scan = [scan EXCEPT !.failed = scan.failed]
    BY Facts DEF ScanType
<1> QED
    BY <1>1, Facts DEF Done, Filed, ScanType

LEMMA ReuseStep ==
    ASSUME Inv, Reuse
    PROVE  Inv'
<1> DEFINE s == files[Entry]
<1>1. scan.entries # <<>> /\ ~scan.full /\ Entry \in Files /\ s \in SessionType
    BY Facts DEF Reuse, AtEntry, Reusable
<1>2. Filed(s, scan.failed)
    BY <1>1, DoneIsFiled DEF Reuse
<1>3. Sound(s, disk[Entry], truth[Entry], now, scan.full /\ ~scan.failed)
  <2>1. (scan.full /\ ~scan.failed) = FALSE
      BY <1>1
  <2>2. Sound(s, disk[Entry], truth[Entry], now, FALSE)
      BY <1>1 DEF Inv, SessionInv
  <2> QED
      BY <2>1, <2>2
<1>4. UNCHANGED <<world, files, report>> /\ failures' = failures
    BY DEF Reuse, published
<1> HIDE DEF s
<1> QED
    BY <1>1, <1>2, <1>3, <1>4, Facts, FiledInv

(* Where reading starts: from nothing, or from a session of this content.  *)
LEMMA CloneReads ==
    ASSUME NEW s \in SessionType, NEW file \in FileType, NEW said \in SaidType, NEW t \in Nat,
           Honest(file, said, t), file.id # 0, Sound(s, file, said, t, FALSE), ~s.torn,
           Continues(s, file)
    PROVE  /\ s.offset <= Len(said)
           /\ Agrees(Clone(s).parse, Parsed(said, s.offset))
<1> DEFINE n == s.offset
<1>1. n \in Nat /\ s.parse \in ParseType /\ s.base \in Nat /\ Len(said) \in Nat
    BY LenProperties DEF SessionType, SaidType
<1>2. Clone(s).parse = [s.parse EXCEPT !.activities = s.base]
    BY <1>1 DEF Clone, SessionType
<1>3. CASE n = 0
  <2>1. Agrees(s.parse, EmptyParse) /\ s.base = 0 /\ EmptyParse \in ParseType
        /\ EmptyParse.activities = 0
      BY <1>3, EmptyTyped DEF Sound, EmptyParse
  <2>2. Agrees(Clone(s).parse, EmptyParse)
      BY <1>1, <1>2, <2>1 DEF Agrees, ParseType
  <2> QED
      BY <1>1, <1>3, <2>2 DEF Parsed
<1>4. CASE n > 0
  <2>1. file.lines \in Seq(LineType) /\ Len(file.lines) = Len(said) /\ n \in 0 .. Len(file.lines)
      BY <1>1 DEF FileType, Honest, Chain, Continues
  <2>2. FirstHashed(s) = file.lines[1]
      BY <1>4, <2>1, EndsTyped DEF Continues, FirstHashed
  <2>3. file.lines[1].time \in file.born .. t
      BY <1>1, <1>4, <2>1 DEF Honest, Chain
  <2>4. s.info.born = file.born
    <3>1. FirstHashed(s).time \in file.born .. t /\ file.born \in Nat
        BY <2>2, <2>3 DEF FileType
    <3>2. s.info.born = file.born \/ FirstHashed(s).time < file.born
        BY <1>4 DEF Sound
    <3> QED
        BY <3>1, <3>2
  <2>5. Says(s, said, FALSE)
      BY <1>4, <2>4 DEF Sound
  <2>6. n <= Len(said) /\ Parsed(said, n) \in ParseType
    <3>1. n <= Len(said)
        BY <2>5 DEF Says
    <3> QED
        BY <1>1, <3>1, ParsedTyped
  <2>7. PICK q \in ParseType : q = Parsed(said, n)
      BY <2>6
  <2>8. Agrees(s.parse, Finish(q)) /\ s.base = q.activities
      BY <2>5, <2>7 DEF Says
  <2>9. Agrees([s.parse EXCEPT !.activities = s.base], q)
      BY <1>1, <2>8 DEF Agrees, Finish, ParseType
  <2> QED
      BY <1>2, <2>6, <2>7, <2>9
<1> QED
    BY <1>1, <1>3, <1>4

LEMMA OpenStep ==
    ASSUME Inv, Open
    PROVE  Inv'
<1> DEFINE file == disk[Entry]
           said == truth[Entry]
           known == files[Entry]
           from == IF ~scan.full /\ Continues(known, file) THEN Clone(known) ELSE NoSession
           s == [from EXCEPT !.info = Info(file)]
<1>1. /\ scan.entries # <<>> /\ Entry \in Files /\ file \in FileType /\ said \in SaidType
      /\ known \in SessionType /\ now \in Nat /\ file.id # 0 /\ scan \in ScanType
    BY Facts DEF Open, AtEntry, Exists
<1>2. scan' = [scan EXCEPT !.at = "read", !.parsed = s]
    BY DEF Open
<1>3. Honest(file, said, now) /\ Sound(known, file, said, now, FALSE)
    BY <1>1 DEF Inv, WorldInv, SessionInv
<1>4. Info(file) \in InfoType /\ Size(file) \in Nat /\ Info(file).born = file.born
      /\ Info(file).size = Size(file) /\ Info(file).id = file.id
    BY <1>1, SizeTyped DEF Info
<1> HIDE DEF file, said, known
<1>5. from \in SessionType
  <2>1. Clone(known) \in SessionType
    <3>1. PICK p \in ParseType : p = [known.parse EXCEPT !.activities = known.base]
        BY <1>1 DEF SessionType, ParseType
    <3>2. Clone(known) = [known EXCEPT !.parse = p]
        BY <1>1, <3>1 DEF Clone, SessionType
    <3> QED
        BY <1>1, <3>2 DEF SessionType
  <2> QED
      BY <2>1, SoundNone
<1>6. ~from.torn => /\ from.offset <= Len(said)
                    /\ Agrees(from.parse, Parsed(said, from.offset))
                    /\ scan.full => from.parse.errors = Parsed(said, from.offset).errors
  <2>1. CASE ~scan.full /\ Continues(known, file)
    <3>1. from = Clone(known) /\ Clone(known).offset = known.offset
          /\ Clone(known).torn = known.torn
        BY <1>1, <2>1 DEF Clone, SessionType
    <3> HIDE DEF from
    <3> QED
        BY <1>1, <1>3, <2>1, <3>1, CloneReads
  <2>2. CASE ~(~scan.full /\ Continues(known, file))
    <3>1. from.offset = 0 /\ from.parse = EmptyParse
        BY <2>2 DEF NoSession
    <3>2. Agrees(EmptyParse, EmptyParse) /\ Parsed(said, 0) = EmptyParse
        BY EmptyTyped DEF Agrees, ParseType, Parsed
    <3>3. Len(said) \in Nat
        BY <1>1, LenProperties DEF SaidType
    <3> QED
        BY <3>1, <3>2, <3>3
  <2> QED
      BY <2>1, <2>2
<1>14. 2 * from.offset <= Size(file)
  <2>1. Len(file.lines) \in Nat /\ Size(file) \div 2 = Len(file.lines)
      BY <1>1, SizeTyped
  <2>2. CASE ~scan.full /\ Continues(known, file)
    <3>1. from.offset = known.offset /\ known.offset \in Nat /\ known.offset <= Len(file.lines)
        BY <1>1, <2>2 DEF Clone, SessionType, Continues
    <3> HIDE DEF from
    <3> QED
        BY <1>4, <2>1, <3>1
  <2>3. CASE ~(~scan.full /\ Continues(known, file))
    <3>1. from.offset = 0
        BY <2>3 DEF NoSession
    <3> HIDE DEF from
    <3> QED
        BY <1>4, <3>1
  <2> QED
      BY <2>2, <2>3
<1> HIDE DEF from
<1>7. s \in SessionType /\ s.info = Info(file) /\ s.torn = from.torn
      /\ s.offset = from.offset /\ s.parse = from.parse
    BY <1>4, <1>5 DEF SessionType
<1> HIDE DEF s
<1>8. Reading(s, file, said, scan.full)
    BY <1>1, <1>4, <1>6, <1>7, <1>14 DEF Reading
<1>9. /\ scan' \in ScanType /\ scan'.parsed = s /\ scan'.full = scan.full
      /\ scan'.entries = scan.entries /\ scan'.next = scan.next /\ scan'.failed = scan.failed
    BY <1>1, <1>2, <1>7 DEF ScanType
<1>10. UNCHANGED <<world, files, report, failures>>
    BY DEF Open, published
<1>11. TypeOK' /\ WorldInv'
    BY <1>9, <1>10, ScanTyped, SameWorld DEF Inv, TypeOK
<1>12. SessionInv'
  <2>1. \A f \in Files : OpenNow(f)' => f = Entry
      BY <1>9 DEF OpenNow, Entry
  <2> QED
      BY <1>1, <1>8, <1>9, <1>10, <2>1 DEF Inv, SessionInv, Exact, world, file, said
<1> QED
    BY <1>11, <1>12 DEF Inv

LEMMA ReadLineStep ==
    ASSUME Inv, ReadLine
    PROVE  Inv'
<1> DEFINE file == disk[Entry]
           said == truth[Entry]
           r == scan.parsed
           n == r.offset + 1
           q == ParseLine(r.parse, file.lines[n])
<1>1. /\ scan.at = "read" /\ scan.entries # <<>> /\ Entry \in Files
      /\ file \in FileType /\ said \in SaidType /\ r \in SessionType
      /\ now \in Nat /\ scan \in ScanType
    BY Facts DEF ReadLine, Inv, SessionInv
<1>2. scan' = [scan EXCEPT !.parsed.offset = n, !.parsed.parse = q]
    BY DEF ReadLine
<1>3. Honest(file, said, now) /\ Reading(r, file, said, scan.full)
    BY <1>1 DEF Inv, WorldInv, SessionInv, OpenNow, Entry
<1>4. 2 * n <= r.info.size /\ n <= Len(file.lines) /\ n \in Nat /\ n > 0 /\ r.offset \in Nat /\ n - 1 = r.offset
      /\ r.parse \in ParseType
    BY <1>1 DEF ReadLine, LineThere, SessionType
<1>5. n \in 1 .. Len(file.lines) /\ file.lines[n] \in LineType
  <2>1. file.lines \in Seq(LineType)
      BY <1>1 DEF FileType
  <2>2. Len(file.lines) \in Nat
      BY <2>1, LenProperties
  <2> HIDE DEF file, n
  <2>3. n \in 1 .. Len(file.lines)
      BY <1>4, <2>2
  <2> QED
      BY <2>1, <2>3, ElementOfSeq
<1> HIDE DEF file, said, r, n
<1>6. q \in ParseType
    BY <1>4, <1>5, ParseTyped
<1>7. ~r.torn => /\ n <= Len(said) /\ Agrees(q, Parsed(said, n))
                 /\ scan.full => q.errors = Parsed(said, n).errors
  <2> SUFFICES ASSUME ~r.torn
               PROVE  /\ n <= Len(said) /\ Agrees(q, Parsed(said, n))
                      /\ scan.full => q.errors = Parsed(said, n).errors
      OBVIOUS
  <2>1. Len(said) = Len(file.lines) /\ n \in 1 .. Len(said)
        /\ said[n].parse = ParseLine(Parsed(said, r.offset), file.lines[n])
      BY <1>3, <1>4, <1>5 DEF Honest, Chain
  <2>2. Parsed(said, n) = ParseLine(Parsed(said, r.offset), file.lines[n])
      BY <1>4, <2>1 DEF Parsed
  <2>3. r.offset \in 0 .. Len(said)
      BY <1>4, <2>1
  <2>4. Parsed(said, r.offset) \in ParseType
      BY <1>1, <2>3, ParsedTyped
  <2>5. Agrees(r.parse, Parsed(said, r.offset))
        /\ (scan.full => r.parse.errors = Parsed(said, r.offset).errors)
      BY <1>3 DEF Reading
  <2>6. Agrees(q, Parsed(said, n)) /\ (scan.full => q.errors = Parsed(said, n).errors)
      BY <1>4, <1>5, <2>2, <2>4, <2>5, ParseAgrees
  <2> QED
      BY <1>4, <1>5, <2>1, <2>6
<1> HIDE DEF q
<1> DEFINE s == [r EXCEPT !.offset = n, !.parse = q]
<1>8. s \in SessionType /\ s.info = r.info /\ s.torn = r.torn /\ s.offset = n /\ s.parse = q
    BY <1>1, <1>4, <1>6 DEF SessionType
<1>9. scan' = [scan EXCEPT !.parsed = s]
    BY <1>1, <1>2 DEF ScanType, r
<1> HIDE DEF s
<1>10. Reading(s, file, said, scan.full)
    BY <1>3, <1>4, <1>7, <1>8 DEF Reading
<1>11. /\ scan' \in ScanType /\ scan'.parsed = s /\ scan'.full = scan.full
       /\ scan'.entries = scan.entries /\ scan'.next = scan.next /\ scan'.failed = scan.failed
    BY <1>1, <1>8, <1>9 DEF ScanType
<1>12. UNCHANGED <<world, files, report, failures>>
    BY DEF ReadLine, published
<1>13. TypeOK' /\ WorldInv'
    BY <1>11, <1>12, ScanTyped, SameWorld DEF Inv, TypeOK
<1>14. SessionInv'
  <2>1. \A f \in Files : OpenNow(f)' => f = Entry
      BY <1>11 DEF OpenNow, Entry
  <2> QED
      BY <1>1, <1>10, <1>11, <1>12, <2>1 DEF Inv, SessionInv, Exact, world, file, said
<1> QED
    BY <1>13, <1>14 DEF Inv

LEMMA ReadSucceedsStep ==
    ASSUME Inv, ReadSucceeds
    PROVE  Inv'
<1> DEFINE file == disk[Entry]
           said == truth[Entry]
           r == scan.parsed
           n == r.offset
           ends == Ends(file.lines, n)
           s == [r EXCEPT !.hashes = ends, !.base = r.parse.activities, !.parse = Finish(r.parse)]
<1>1. /\ scan.at = "read" /\ scan.entries # <<>> /\ Entry \in Files
      /\ file \in FileType /\ said \in SaidType /\ r \in SessionType
      /\ now \in Nat /\ scan \in ScanType /\ scan.full \in BOOLEAN /\ scan.failed \in BOOLEAN
      /\ failures \in 0 .. MaxFailures
    BY Facts DEF ReadSucceeds, AtEnd, Inv, SessionInv
<1>2. Done(s) /\ UNCHANGED <<world, files, report>> /\ failures' = failures
    BY DEF ReadSucceeds, published
<1>3. Honest(file, said, now) /\ Reading(r, file, said, scan.full)
    BY <1>1 DEF Inv, WorldInv, SessionInv, OpenNow, Entry
<1>4. n \in Nat /\ r.parse \in ParseType /\ Size(file) >= r.info.size /\ r.info.size \in Nat
      /\ file.lines \in Seq(LineType)
  <2>1. r.info.size \in Nat /\ Size(file) \in Nat
      BY <1>1, SizeTyped DEF SessionType, InfoType
  <2>2. ~(Size(file) < r.info.size)
      BY DEF ReadSucceeds, Changed
  <2>3. n \in Nat /\ r.parse \in ParseType /\ file.lines \in Seq(LineType)
      BY <1>1 DEF SessionType, FileType
  <2> HIDE DEF file, r, n
  <2> QED
      BY <2>1, <2>2, <2>3
<1> HIDE DEF file, said, r, n
<1>5. n \in 0 .. Len(file.lines)
  <2>1. Len(file.lines) \in Nat /\ Size(file) \div 2 = Len(file.lines) /\ Size(file) \in Nat
      BY <1>1, SizeTyped
  <2>2. 2 * n <= r.info.size
      BY <1>3 DEF Reading, n
  <2> QED
      BY <1>4, <2>1, <2>2
<1>6. /\ ends \in Seq(LineType) \X Seq(LineType)
      /\ n > 0 => ends[1][1] = file.lines[1]
    BY <1>4, <1>5, EndsTyped
<1>7. Finish(r.parse) \in ParseType /\ Finish(r.parse).errors = r.parse.errors
  <2>1. Agrees(r.parse, r.parse)
      BY <1>4 DEF Agrees, ParseType
  <2> QED
      BY <1>4, <2>1, FinishAgrees
<1> HIDE DEF ends
<1>8. PICK done \in ParseType : done = Finish(r.parse)
    BY <1>7
<1>9. r.parse.activities \in Nat
    BY <1>4 DEF ParseType
<1>10. /\ s \in SessionType /\ s.info = r.info /\ s.torn = r.torn /\ s.offset = n
       /\ s.hashes = ends /\ s.base = r.parse.activities /\ s.parse = done
    BY <1>1, <1>6, <1>8, <1>9 DEF SessionType, n
<1> HIDE DEF s
<1>11. Filed(s, scan.failed)
    BY <1>2, <1>10, DoneIsFiled
<1>12. Sound(s, file, said, now, scan.full /\ ~scan.failed)
  <2> SUFFICES ASSUME ~s.torn
               PROVE  Sound(s, file, said, now, scan.full /\ ~scan.failed)
      BY DEF Sound
  <2>1. /\ file.id # 0 /\ r.info.born = file.born /\ n <= Len(said)
        /\ Agrees(r.parse, Parsed(said, n))
        /\ scan.full => r.parse.errors = Parsed(said, n).errors
      BY <1>3, <1>10 DEF Reading, n
  <2>2. n \in 0 .. Len(said)
      BY <1>3, <1>5 DEF Honest, Chain
  <2>3. PICK once \in ParseType : once = Parsed(said, n)
      BY <1>1, <2>2, ParsedTyped
  <2>4. Agrees(done, Finish(once)) /\ r.parse.activities = once.activities
        /\ done.errors = r.parse.errors
      BY <1>4, <1>7, <1>8, <2>1, <2>3, FinishAgrees DEF Agrees
  <2>5. Says(s, said, scan.full /\ ~scan.failed)
      BY <1>10, <2>1, <2>3, <2>4 DEF Says
  <2>6. CASE n = 0
    <3>1. once = EmptyParse /\ Finish(once) = EmptyParse /\ EmptyParse.activities = 0
        BY <2>3, <2>6, EmptyTyped DEF Parsed, EmptyParse
    <3> QED
        BY <1>10, <2>4, <2>6, <3>1 DEF Sound
  <2>7. CASE n > 0
    <3>1. file.lines[1].time \in file.born .. now /\ file.born \in 1 .. now
        BY <1>3, <1>5, <2>1, <2>7 DEF Honest, Chain, Dates
    <3>2. FirstHashed(s).time \in 0 .. now
        BY <1>1, <1>6, <1>10, <2>7, <3>1 DEF FirstHashed
    <3> QED
        BY <1>10, <2>1, <2>5, <2>7, <3>1, <3>2 DEF Sound
  <2> QED
      BY <1>4, <2>6, <2>7
<1> QED
    BY <1>1, <1>2, <1>10, <1>11, <1>12, FiledInv DEF file, said

LEMMA FailedStep ==
    ASSUME Inv, scan.entries # <<>>, Failed, UNCHANGED <<world, files, report>>,
           failures' \in 0 .. MaxFailures
    PROVE  Inv'
<1> DEFINE old == files[Entry]
           s == IF Known(Entry) THEN [old EXCEPT !.parse.errors = @ + 1] ELSE NoSession
<1>1. Entry \in Files /\ old \in SessionType /\ old.parse \in ParseType /\ scan \in ScanType
    BY Facts DEF SessionType
<1>2. Sound(old, disk[Entry], truth[Entry], now, FALSE)
    BY <1>1 DEF Inv, SessionInv
<1>3. Filed(s, TRUE)
    BY DEF Failed, Filed
<1> HIDE DEF old
<1>4. PICK p \in ParseType : p = [old.parse EXCEPT !.errors = @ + 1]
  <2>1. PICK more \in Nat : more = old.parse.errors + 1
      BY <1>1 DEF ParseType
  <2>2. [old.parse EXCEPT !.errors = more] \in ParseType
      BY <1>1 DEF ParseType
  <2> QED
      BY <2>1, <2>2
<1>5. s = [old EXCEPT !.parse = p] \/ s = NoSession
    BY <1>1, <1>4 DEF SessionType, old
<1> HIDE DEF s
<1>6. s \in SessionType /\ Sound(s, disk[Entry], truth[Entry], now, FALSE)
  <2>1. CASE s = [old EXCEPT !.parse = p]
    <3>1. s \in SessionType /\ s.info = old.info /\ s.torn = old.torn /\ s.offset = old.offset
          /\ s.hashes = old.hashes /\ s.base = old.base /\ s.parse = p
        BY <1>1, <2>1 DEF SessionType
    <3>2. \A q : Agrees(old.parse, q) /\ q.errors \in Nat => Agrees(p, q)
      <4>1. /\ p.billed = old.parse.billed /\ p.previous = old.parse.previous
            /\ p.seen = old.parse.seen /\ p.activities = old.parse.activities
            /\ p.calls = old.parse.calls /\ p.items = old.parse.items
            /\ p.errors = old.parse.errors + 1 /\ old.parse.errors \in Nat
          BY <1>1, <1>4 DEF ParseType
      <4>2. \A e \in Nat : old.parse.errors >= e => p.errors >= e
          BY <4>1
      <4> QED
          BY <4>1, <4>2 DEF Agrees
    <3>3. EmptyParse.errors \in Nat
        BY DEF EmptyParse
    <3>4. s.offset = 0 /\ ~s.torn => Agrees(s.parse, EmptyParse) /\ s.base = 0
        BY <1>2, <3>1, <3>2, <3>3 DEF Sound
    <3>5. ASSUME Says(old, truth[Entry], FALSE), s.offset > 0
          PROVE  Says(s, truth[Entry], FALSE)
      <4>1. truth[Entry] \in SaidType /\ s.offset \in 0 .. Len(truth[Entry])
        <5>1. truth[Entry] \in SaidType
            BY <1>1, Facts
        <5> QED
            BY <3>1, <3>5, <5>1, LenProperties DEF Says, SessionType, SaidType
      <4>2. PICK once \in ParseType : once = Parsed(truth[Entry], s.offset)
          BY <4>1, ParsedTyped
      <4>3. Finish(once).errors \in Nat
          BY DEF Finish, ParseType
      <4> QED
          BY <3>1, <3>2, <3>5, <4>2, <4>3 DEF Says
    <3> QED
        BY <1>2, <3>1, <3>4, <3>5 DEF Sound, FirstHashed
  <2> QED
      BY <1>5, <2>1, SoundNone
<1>7. (scan.full /\ ~TRUE) = FALSE
    OBVIOUS
<1> QED
    BY <1>3, <1>6, <1>7, FiledInv

LEMMA PublishStep ==
    ASSUME Inv, Publish
    PROVE  Inv'
<1>1. /\ files' = scan.next /\ scan' = Idle /\ failures' = failures /\ UNCHANGED world
    BY DEF Publish
<1>2. /\ Idle \in ScanType /\ Idle.next = NoSessions /\ Idle.at = "idle"
      /\ Idle.full = FALSE
  <2>1. NoSession \in SessionType
      BY SoundNone
  <2>2. NoSession.info = Info(NoFile) /\ Info(NoFile) \in InfoType
      BY NoFileTyped, SizeTyped DEF NoSession
  <2>3. NoSessions \in [Files -> SessionType]
      BY <2>1 DEF NoSessions
  <2>4. [f \in Files |-> Info(NoFile)] \in [Files -> InfoType]
      BY <2>2
  <2>5. <<>> \in Seq(Files)
      BY EmptySeq
  <2> QED
      BY <2>1, <2>3, <2>4, <2>5 DEF Idle, ScanType
<1>3. report' \in [truncated : BOOLEAN, error : BOOLEAN, found : [Files -> InfoType]]
  <2>1. scan.found \in [Files -> InfoType] /\ scan.failed \in BOOLEAN
      BY Facts DEF ScanType
  <2> QED
      BY <2>1 DEF Publish
<1>4. TypeOK' /\ WorldInv'
    BY <1>1, <1>2, <1>3, Facts, ScanTyped, SameWorld DEF Inv
<1>5. ASSUME NEW f \in Files
      PROVE  /\ Sound(files'[f], disk'[f], truth'[f], now', FALSE)
             /\ Sound(scan'.next[f], disk'[f], truth'[f], now', Exact')
  <2>1. Sound(scan.next[f], disk[f], truth[f], now, FALSE)
      BY SoundWeaker DEF Inv, SessionInv
  <2>2. scan'.next[f] = NoSession
      BY <1>1, <1>2 DEF NoSessions
  <2> QED
      BY <1>1, <2>1, <2>2, SoundNone DEF world
<1>6. scan'.at = "idle" /\ \A f \in Files : ~OpenNow(f)'
    BY <1>1, <1>2 DEF OpenNow
<1> QED
    BY <1>4, <1>5, <1>6 DEF Inv, SessionInv

LEMMA CollectFailsStep ==
    ASSUME Inv, CollectFails
    PROVE  Inv'
<1>1. UNCHANGED <<world, files, scan>> /\ failures' = failures + 1 /\ failures < MaxFailures
      /\ report' = [report EXCEPT !.error = TRUE]
    BY DEF CollectFails, MayFail
<1>2. TypeOK'
  <2>1. failures' \in 0 .. MaxFailures
      BY <1>1, MonitorAssumption DEF Inv, TypeOK
  <2>2. report' \in [truncated : BOOLEAN, error : BOOLEAN, found : [Files -> InfoType]]
      BY <1>1 DEF Inv, TypeOK
  <2> QED
      BY <1>1, <2>1, <2>2, Facts, ScanTyped DEF Inv
<1>3. WorldInv' /\ SessionInv'
    BY <1>1, SameWorld DEF Inv, SessionInv, OpenNow, Exact, world
<1> QED
    BY <1>2, <1>3 DEF Inv

(* What is found: no two files were written at the same time, so that each *)
(* has a rank of its own.                                                  *)
LEMMA FoundIsThere ==
    ASSUME TypeOK, Apart
    PROVE  /\ Found \in Seq(Files) /\ Len(Found) = Cardinality(There) /\ Len(Found) \in Nat
           /\ \A f \in There : \E i \in 1 .. Len(Found) : Found[i] = f
<1> DEFINE n == Cardinality(There)
           From(f) == {g \in There : disk[g].mtime >= disk[f].mtime}
           rank == [f \in There |-> Rank(f)]
<1>1. There \subseteq Files /\ IsFiniteSet(There) /\ n \in Nat
  <2>1. There \subseteq Files
      BY DEF There
  <2>2. IsFiniteSet(There)
      BY <2>1, MonitorAssumption, FS_Subset
  <2> QED
      BY <2>1, <2>2, FS_CardinalityType
<1>2. \A f \in There : disk[f].mtime \in Nat
    BY <1>1 DEF TypeOK, FileType
<1>3. ASSUME NEW f \in There
      PROVE  Rank(f) = Cardinality(From(f)) /\ IsFiniteSet(From(f)) /\ Rank(f) \in 1 .. n
  <2>1. From(f) \subseteq There /\ f \in From(f)
      BY <1>2
  <2>2. IsFiniteSet(From(f)) /\ Cardinality(From(f)) <= n
      BY <1>1, <2>1, FS_Subset
  <2>3. Cardinality(From(f)) \in Nat /\ Cardinality(From(f)) # 0
      BY <2>1, <2>2, FS_CardinalityType, FS_EmptySet
  <2> QED
      BY <1>1, <2>2, <2>3 DEF Rank
<1>4. ASSUME NEW f \in There, NEW g \in There, disk[f].mtime > disk[g].mtime
      PROVE  Rank(f) # Rank(g)
  <2>1. From(f) \subseteq From(g) /\ g \in From(g) /\ g \notin From(f)
      BY <1>2, <1>4
  <2>2. Cardinality(From(f)) # Cardinality(From(g))
      BY <1>3, <2>1, FS_Subset
  <2> QED
      BY <1>3, <2>2
<1>5. rank \in Injection(There, 1 .. n)
  <2>1. rank \in [There -> 1 .. n]
      BY <1>3
  <2>2. ASSUME NEW f \in There, NEW g \in There, f # g PROVE Rank(f) # Rank(g)
    <3>1. disk[f].mtime # disk[g].mtime
        BY <1>1, <2>2 DEF Apart, There
    <3>2. disk[f].mtime > disk[g].mtime \/ disk[g].mtime > disk[f].mtime
        BY <1>2, <3>1
    <3> QED
        BY <1>4, <3>2
  <2> QED
      BY <2>1, <2>2 DEF Injection, IsInjective
<1>6. \A i \in 1 .. n : \E f \in There : Rank(f) = i
  <2>1. IsFiniteSet(1 .. n) /\ Cardinality(1 .. n) = n
      BY <1>1, FS_Interval
  <2>2. rank \in Surjection(There, 1 .. n)
      BY <1>1, <1>5, <2>1, FS_Injection
  <2> QED
      BY <2>2 DEF Surjection
<1>7. \A i \in 1 .. n : Found[i] \in There /\ Rank(Found[i]) = i
    BY <1>6 DEF Found
<1>8. Found \in Seq(Files) /\ Len(Found) = n
  <2>1. Found = [i \in 1 .. n |-> CHOOSE f \in There : Rank(f) = i]
      BY DEF Found
  <2>2. \A i \in 1 .. n : (CHOOSE f \in There : Rank(f) = i) \in Files
      BY <1>1, <1>6
  <2>3. Found \in [1 .. n -> Files]
      BY <2>1, <2>2
  <2> QED
      BY <1>1, <2>3, LenProperties
<1>9. ASSUME NEW f \in There PROVE Found[Rank(f)] = f /\ Rank(f) \in 1 .. n
  <2>1. Rank(f) \in 1 .. n
      BY <1>3
  <2>2. Found[Rank(f)] \in There /\ Rank(Found[Rank(f)]) = Rank(f)
      BY <1>7, <2>1
  <2> QED
      BY <1>5, <2>1, <2>2 DEF Injection, IsInjective
<1> QED
    BY <1>1, <1>8, <1>9

LEMMA CutFound ==
    ASSUME TypeOK, Apart
    PROVE  /\ Cut(Found) \in Seq(Files)
           /\ MaxFiles = 0 \/ Cardinality(There) <= MaxFiles =>
                \A f \in There : f \in ToSet(Cut(Found))
<1>1. /\ Found \in Seq(Files) /\ Len(Found) = Cardinality(There) /\ Len(Found) \in Nat
      /\ \A f \in There : \E i \in 1 .. Len(Found) : Found[i] = f
    BY FoundIsThere
<1>2. MaxFiles \in Nat
    BY MonitorAssumption
<1>3. CASE MaxFiles > 0 /\ Len(Found) > MaxFiles
  <2>1. Cut(Found) = SubSeq(Found, 1, MaxFiles)
      BY <1>3 DEF Cut
  <2>2. \A i \in 1 .. MaxFiles : Found[i] \in Files
      BY <1>1, <1>2, <1>3, ElementOfSeq
  <2> QED
      BY <1>1, <1>2, <1>3, <2>1, <2>2, SubSeqProperties
<1>4. CASE ~(MaxFiles > 0 /\ Len(Found) > MaxFiles)
  <2>1. Cut(Found) = Found
      BY <1>4 DEF Cut
  <2>2. DOMAIN Found = 1 .. Len(Found)
      BY <1>1, LenProperties
  <2> QED
      BY <1>1, <2>1, <2>2 DEF ToSet
<1> QED
    BY <1>3, <1>4

LEMMA RefreshBeginsStep ==
    ASSUME Inv, NEW full \in BOOLEAN, RefreshBegins(full)
    PROVE  /\ Inv' /\ scan' \in ScanType
           /\ scan'.at = "entry" /\ scan'.full = full /\ scan'.entries = Cut(Found)
           /\ scan'.failed = FALSE /\ scan'.next = NoSessions
           /\ scan'.found = [f \in Files |-> Info(disk[f])]
<1>1. Cut(Found) \in Seq(Files)
    BY CutFound DEF Inv, WorldInv
<1>2. [f \in Files |-> Info(disk[f])] \in [Files -> InfoType]
    BY Facts, SizeTyped
<1>3. NoSession \in SessionType /\ NoSessions \in [Files -> SessionType]
    BY SoundNone DEF NoSessions
<1>4. PICK entries \in Seq(Files) : entries = Cut(Found)
    BY <1>1
<1>5. PICK found \in [Files -> InfoType] : found = [f \in Files |-> Info(disk[f])]
    BY <1>2
<1>6. scan' = [Idle EXCEPT !.at = "entry", !.full = full, !.entries = entries, !.found = found]
    BY <1>4, <1>5 DEF RefreshBegins
<1>7. /\ scan' \in ScanType
      /\ scan'.at = "entry" /\ scan'.full = full /\ scan'.entries = entries
      /\ scan'.failed = FALSE /\ scan'.next = NoSessions /\ scan'.found = found
    BY <1>3, <1>6 DEF Idle, ScanType
<1>8. UNCHANGED <<world, files, report, failures>>
    BY DEF RefreshBegins, published
<1>9. TypeOK' /\ WorldInv'
    BY <1>7, <1>8, ScanTyped, SameWorld DEF Inv, TypeOK
<1>10. ASSUME NEW f \in Files
      PROVE  /\ Sound(files'[f], disk'[f], truth'[f], now', FALSE)
             /\ Sound(scan'.next[f], disk'[f], truth'[f], now', Exact')
  <2>1. Sound(files[f], disk[f], truth[f], now, FALSE)
      BY DEF Inv, SessionInv
  <2>2. scan'.next[f] = NoSession
      BY <1>7 DEF NoSessions
  <2> QED
      BY <1>8, <2>1, <2>2, SoundNone DEF world
<1>11. SessionInv'
    BY <1>7, <1>10 DEF SessionInv, OpenNow
<1> QED
    BY <1>4, <1>5, <1>7, <1>9, <1>11 DEF Inv

LEMMA InitInv == Init => Inv
<1> SUFFICES ASSUME Init PROVE Inv
    OBVIOUS
<1>1. /\ now = 0 /\ failures = 0 /\ disk = [f \in Files |-> NoFile]
      /\ truth = [f \in Files |-> <<>>] /\ files = NoSessions /\ scan = Idle
      /\ report = [truncated |-> FALSE, error |-> FALSE, found |-> Idle.found]
    BY DEF Init
<1>2. NoSession \in SessionType /\ NoFile \in FileType /\ Info(NoFile) \in InfoType
      /\ <<>> \in SaidType
    BY NoFileTyped, NoFileHonest, SizeTyped, SoundNone
<1>3. Idle \in ScanType /\ Idle.next = NoSessions /\ Idle.at = "idle"
      /\ Idle.found = [f \in Files |-> Info(NoFile)]
  <2>1. NoSessions \in [Files -> SessionType] /\ [f \in Files |-> Info(NoFile)] \in [Files -> InfoType]
      BY <1>2 DEF NoSessions
  <2> QED
      BY <1>2, <2>1, EmptySeq DEF Idle, ScanType
<1>4. TypeOK
  <2>1. disk \in [Files -> FileType] /\ truth \in [Files -> SaidType]
      BY <1>1, <1>2
  <2>2. files \in [Files -> SessionType] /\ scan \in ScanType
        /\ Idle.found \in [Files -> InfoType]
      BY <1>1, <1>2, <1>3 DEF NoSessions
  <2>3. now \in 0 .. MaxWrites /\ failures \in 0 .. MaxFailures
      BY <1>1, MonitorAssumption
  <2>4. report \in [truncated : BOOLEAN, error : BOOLEAN, found : [Files -> InfoType]]
      BY <1>1, <2>2
  <2> QED
      BY <2>1, <2>2, <2>3, <2>4 DEF TypeOK, ScanType, SaidType
<1>5. WorldInv
  <2>1. \A f \in Files : Honest(disk[f], truth[f], now)
      BY <1>1, NoFileHonest
  <2>2. Apart
      BY <1>1, NoFileTyped DEF Apart, Exists
  <2> QED
      BY <2>1, <2>2 DEF WorldInv
<1>6. SessionInv
  <2>1. \A f \in Files : files[f] = NoSession /\ scan.next[f] = NoSession
      BY <1>1, <1>3 DEF NoSessions
  <2>2. \A f \in Files : /\ Sound(NoSession, disk[f], truth[f], now, FALSE)
                          /\ Sound(NoSession, disk[f], truth[f], now, Exact)
      BY SoundNone
  <2>3. scan.at = "idle" /\ \A f \in Files : ~OpenNow(f)
      BY <1>1, <1>3 DEF OpenNow
  <2> QED
      BY <2>1, <2>2, <2>3 DEF SessionInv
<1> QED
    BY <1>4, <1>5, <1>6 DEF Inv

LEMMA StepInv == Inv /\ [Next]_vars => Inv'
<1> SUFFICES ASSUME Inv, [Next]_vars PROVE Inv'
    OBVIOUS
<1>1. CASE \E f \in Files : Codex(f)
    BY <1>1, CodexStep, MovedInv DEF Inv
<1>2. CASE \E full \in BOOLEAN : RefreshBegins(full)
    BY <1>2, RefreshBeginsStep
<1>3. CASE RefreshStep
  <2>1. CASE ReadChanged \/ OpenMissing
    <3>1. scan.entries # <<>> /\ Failed /\ UNCHANGED <<world, files, report, failures>>
        BY <2>1 DEF ReadChanged, OpenMissing, AtEnd, AtEntry, Inv, SessionInv, published
    <3> QED
        BY <3>1, Facts, FailedStep
  <2> QED
      BY <1>3, <2>1, ReuseStep, OpenStep, ReadLineStep, ReadSucceedsStep, PublishStep DEF RefreshStep
<1>4. CASE CollectFails
    BY <1>4, CollectFailsStep
<1>5. CASE ReadRefused
  <2>1. scan.entries # <<>> /\ Failed /\ UNCHANGED <<world, files, report>>
      BY <1>5 DEF ReadRefused, AtEntry, Inv, SessionInv, published
  <2>2. failures' \in 0 .. MaxFailures
      BY <1>5, MonitorAssumption, Facts DEF ReadRefused, MayFail
  <2> QED
      BY <2>1, <2>2, FailedStep
<1>6. CASE UNCHANGED vars
    BY <1>6 DEF vars, world, published, Inv, TypeOK, WorldInv, Apart, Exists, SessionInv, Exact,
                OpenNow
<1> QED
    BY <1>1, <1>2, <1>3, <1>4, <1>5, <1>6 DEF Next

LEMMA InvHolds == Spec => []Inv
BY InitInv, StepInv, PTL DEF Spec

(* The variables keep their types: what a scan finds is a sequence of files*)
(* without a gap, and what it hashes lies within the file.                 *)
THEOREM TypeCorrect == Spec => []TypeOK
<1>1. Inv => TypeOK
    BY DEF Inv
<1> QED
    BY <1>1, InvHolds, PTL

LEMMA CurrentSays ==
    ASSUME Inv, NEW f \in Files, Current(f), files[f].offset > 0
    PROVE  /\ Says(files[f], truth[f], FALSE) /\ files[f] \in SessionType
           /\ files[f].offset \in 1 .. Len(truth[f])
           /\ truth[f][files[f].offset].parse \in ParseType
           /\ Parsed(truth[f], files[f].offset) = truth[f][files[f].offset].parse
<1>1. files[f] \in SessionType /\ truth[f] \in SaidType /\ files[f].offset \in Nat
    BY Facts DEF SessionType
<1>2. Says(files[f], truth[f], FALSE)
    BY DEF Inv, SessionInv, Sound, Current
<1>3. Len(truth[f]) \in Nat
    BY <1>1, LenProperties DEF SaidType
<1>4. files[f].offset \in 1 .. Len(truth[f])
    BY <1>1, <1>2, <1>3 DEF Says
<1>5. Parsed(truth[f], files[f].offset) \in ParseType
    BY <1>1, <1>4, ParsedTyped
<1>6. Parsed(truth[f], files[f].offset) = truth[f][files[f].offset].parse
  <2>1. files[f].offset # 0
      BY <1>1
  <2> QED
      BY <2>1 DEF Parsed
<1> QED
    BY <1>1, <1>2, <1>4, <1>5, <1>6

(* What a session accumulates over several scans is what one reading of its*)
(* lines gives, but for the errors of scans that failed: its hashes tell   *)
(* the content it continues from any other of the same file.               *)
THEOREM Incremental == Spec => []IncrementalIsFull
<1>1. Inv => IncrementalIsFull
  <2> SUFFICES ASSUME Inv, NEW f \in Files, Current(f), files[f].offset > 0
               PROVE  /\ files[f].offset <= Len(truth[f])
                      /\ LET once == Finish(truth[f][files[f].offset].parse)
                         IN  /\ files[f].parse.errors >= once.errors
                             /\ [files[f].parse EXCEPT !.errors = once.errors] = once
      BY DEF IncrementalIsFull
  <2>1. PICK p \in ParseType : p = truth[f][files[f].offset].parse
      BY CurrentSays
  <2>2. Agrees(files[f].parse, Finish(p)) /\ files[f].offset <= Len(truth[f])
        /\ files[f].parse \in ParseType
      BY <2>1, CurrentSays DEF Says, SessionType
  <2>3. Finish(p) \in ParseType
      BY FinishAgrees DEF Agrees, ParseType
  <2>4. PICK once \in ParseType : once = Finish(p)
      BY <2>3
  <2>5. files[f].parse.errors >= once.errors
        /\ [files[f].parse EXCEPT !.errors = once.errors] = once
      BY <2>2, <2>4 DEF Agrees, ParseType
  <2> QED
      BY <2>1, <2>2, <2>4, <2>5
<1> QED
    BY <1>1, InvHolds, PTL

(* However often the usage of a response is repeated, and in whichever scan*)
(* each record of it is read, it is billed once; only replays of records   *)
(* without a response id add what they say again.                          *)
THEOREM Billed == Spec => []BilledOnce
<1>1. Inv => BilledOnce
  <2> SUFFICES ASSUME Inv, NEW f \in Files, Current(f), files[f].offset > 0
               PROVE  LET said == truth[f][files[f].offset]
                      IN  /\ files[f].parse.billed <= said.used + said.again
                          /\ ~disk[f].compacted => files[f].parse.billed >= said.used
      BY DEF BilledOnce
  <2>1. PICK p \in ParseType : p = truth[f][files[f].offset].parse
      BY CurrentSays
  <2>2. Agrees(files[f].parse, Finish(p)) /\ files[f].offset \in 1 .. Len(truth[f])
      BY <2>1, CurrentSays DEF Says
  <2>3. Finish(p).billed = p.billed
      BY DEF Finish, ParseType
  <2>4. Billing(disk[f], truth[f])
      BY DEF Inv, WorldInv, Honest
  <2> QED
      BY <2>1, <2>2, <2>3, <2>4 DEF Billing, Agrees
<1> QED
    BY <1>1, InvHolds, PTL

(* A refresh of everything that meets no failure publishes the errors of   *)
(* the files and no others, whatever earlier scans added.                  *)
THEOREM Heals == Spec => FullHeals
<1>1. Inv /\ [Next]_vars =>
        (Publish /\ scan.full /\ ~scan.failed =>
            \A f \in Files : files'[f] # NoSession /\ ~files'[f].torn
                             /\ files'[f].info.born = disk[f].born
                             /\ files'[f].offset > 0 =>
                files'[f].parse.errors = truth[f][files'[f].offset].parse.errors)
  <2> SUFFICES ASSUME Inv, Publish, scan.full, ~scan.failed, NEW f \in Files,
                      ~files'[f].torn, files'[f].info.born = disk[f].born, files'[f].offset > 0
               PROVE  files'[f].parse.errors = truth[f][files'[f].offset].parse.errors
      OBVIOUS
  <2>1. files' = scan.next /\ scan.next[f] \in SessionType
      BY Facts DEF Publish
  <2>2. Sound(scan.next[f], disk[f], truth[f], now, TRUE)
    <3>1. Exact = TRUE
        BY DEF Exact
    <3> QED
        BY <3>1 DEF Inv, SessionInv
  <2>3. Says(scan.next[f], truth[f], TRUE)
      BY <2>1, <2>2 DEF Sound
  <2>4. scan.next[f].offset # 0
      BY <2>1 DEF SessionType
  <2> QED
      BY <2>1, <2>3, <2>4 DEF Says, Parsed
<1> QED
    BY <1>1, InvHolds, PTL DEF Spec, FullHeals

----------------------------------------------------------------------------
(* What READY promises.                                                    *)

(* A session covers what was found of its file; it read all that was there *)
(* when its file was opened.                                               *)
Covers(s, i) ==
    /\ s # NoSession
    /\ s.info.born >= i.born
    /\ ~s.torn /\ s.info.born = i.born => s.offset >= i.size \div 2
Enough(s) == ~s.torn => s.offset >= s.info.size \div 2

(* The states of a file that are remembered: no two differ that have the   *)
(* same ModTime.                                                           *)
Infos(f) ==
    {Info(NoFile), Info(disk[f]), files[f].info, scan.next[f].info, scan.found[f]}
        \cup {i \in {scan.parsed.info} : OpenNow(f)}
Alike(infos, t) == \A a, b \in infos : a.mtime <= t /\ (a.mtime = b.mtime => a = b)

(* A later state of a file.                                                *)
AtLeast(i, j) == i.born <= j.born /\ (i.born = j.born => i.size <= j.size)
Whole(found) == ~(MaxFiles > 0 /\ Cardinality({f \in Files : found[f].id # 0}) > MaxFiles)

PublishedCovers ==
    ~report.error /\ ~report.truncated =>
        \A f \in Files : report.found[f].id # 0 => Covers(files[f], report.found[f])
ScanCovers ==
    scan.at # "idle" /\ ~scan.failed /\ Whole(scan.found) =>
        \A f \in Files : scan.found[f].id # 0 /\ f \notin ToSet(scan.entries) =>
            Covers(scan.next[f], scan.found[f])
FilesAlike ==
    \A f \in Files :
        /\ Alike(Infos(f), now)
        /\ Enough(files[f]) /\ Enough(scan.next[f])
        /\ scan.found[f].born <= now
        /\ Exists(f) => AtLeast(scan.found[f], Info(disk[f]))
        /\ OpenNow(f) => AtLeast(scan.found[f], scan.parsed.info)
ReadyInv == PublishedCovers /\ ScanCovers /\ FilesAlike

LEMMA AlikeFewer ==
    ASSUME NEW t \in Nat, NEW u \in {t, t + 1}, NEW I \in SUBSET InfoType, Alike(I, t),
           NEW J \in SUBSET I
    PROVE  Alike(J, u)
BY DEF Alike, InfoType

LEMMA AlikeMore ==
    ASSUME NEW t \in Nat, NEW I \in SUBSET InfoType, Alike(I, t), NEW x, x.mtime = t + 1,
           NEW J \in SUBSET (I \cup {x})
    PROVE  Alike(J, t + 1)
<1> SUFFICES ASSUME NEW a \in J, NEW b \in J
             PROVE  a.mtime <= t + 1 /\ (a.mtime = b.mtime => a = b)
    BY DEF Alike
<1>1. \A c \in I : c.mtime \in Nat /\ c.mtime <= t
    BY DEF Alike, InfoType
<1> QED
    BY <1>1 DEF Alike

LEMMA InfosTyped ==
    ASSUME Inv, NEW f \in Files
    PROVE  Infos(f) \in SUBSET InfoType
<1>1. Info(NoFile) \in InfoType /\ Info(disk[f]) \in InfoType
    BY Facts, NoFileTyped, SizeTyped
<1>2. files[f].info \in InfoType /\ scan.next[f].info \in InfoType /\ scan.found[f] \in InfoType
      /\ scan.parsed.info \in InfoType
    BY Facts DEF SessionType, ScanType
<1> QED
    BY <1>1, <1>2 DEF Infos

(* Codex's steps.                                                          *)
LEMMA MovedReady ==
    ASSUME Inv, ReadyInv, Moved, Inv'
    PROVE  ReadyInv'
<1>1. /\ scan \in ScanType /\ files' = files /\ report' = report
      /\ scan' = scan \/ scan' = [scan EXCEPT !.parsed.torn = TRUE]
      /\ scan.parsed \in SessionType /\ now \in Nat /\ now' \in {now, now + 1}
    BY Facts DEF Moved, published
<1>2. /\ scan'.at = scan.at /\ scan'.entries = scan.entries /\ scan'.next = scan.next
      /\ scan'.failed = scan.failed /\ scan'.found = scan.found
      /\ scan'.parsed.info = scan.parsed.info
    BY <1>1 DEF ScanType, SessionType
<1>3. PublishedCovers' /\ ScanCovers'
    BY <1>1, <1>2 DEF ReadyInv, PublishedCovers, ScanCovers
<1>4. ASSUME NEW f \in Files
      PROVE  /\ Alike(Infos(f), now)' /\ (Enough(files[f]) /\ Enough(scan.next[f]))'
             /\ (scan.found[f].born <= now)'
             /\ (Exists(f) => AtLeast(scan.found[f], Info(disk[f])))'
             /\ (OpenNow(f) => AtLeast(scan.found[f], scan.parsed.info))'
  <2> DEFINE new == Info(disk'[f])
             i == scan.found[f]
  <2>1. /\ Alike(Infos(f), now) /\ Infos(f) \in SUBSET InfoType
        /\ Enough(files[f]) /\ Enough(scan.next[f]) /\ i.born <= now
        /\ Exists(f) => AtLeast(i, Info(disk[f]))
        /\ OpenNow(f) => AtLeast(i, scan.parsed.info)
      BY InfosTyped DEF ReadyInv, FilesAlike
  <2>2. Infos(f)' \subseteq Infos(f) \cup {new}
      BY <1>1, <1>2 DEF Infos, OpenNow
  <2>3. i.born \in Nat /\ i.size \in Nat /\ disk[f] \in FileType /\ disk'[f] \in FileType
      BY Facts DEF Moved, ScanType, InfoType
  <2>4. Size(disk[f]) \in Nat /\ Size(disk'[f]) \in Nat /\ new.mtime = disk'[f].mtime
        /\ new.born = disk'[f].born /\ new.size = Size(disk'[f])
      BY <2>3, SizeTyped DEF Info
  <2>5. /\ new \in Infos(f) \/ (now' = now + 1 /\ new.mtime = now + 1)
        /\ disk'[f].id # 0 => AtLeast(i, new)
    <3>1. CASE disk'[f] = disk[f]
        BY <2>1, <3>1 DEF Infos, Exists
    <3>2. CASE /\ Exists(f)
               /\ Kept(disk[f], truth[f], disk'[f], truth'[f], now)
               /\ disk'[f].mtime = disk[f].mtime \/ (now' = now + 1 /\ disk'[f].mtime = now')
      <4>1. AtLeast(i, new)
        <5>1. /\ i.born <= disk[f].born /\ (i.born = disk[f].born => i.size <= Size(disk[f]))
            BY <2>1, <3>2 DEF AtLeast, Info
        <5>2. disk'[f].born = disk[f].born /\ Size(disk[f]) <= Size(disk'[f])
            BY <3>2 DEF Kept
        <5> HIDE DEF i, new
        <5> QED
            BY <2>3, <2>4, <5>1, <5>2 DEF AtLeast
      <4>2. CASE now' = now + 1 /\ disk'[f].mtime = now'
          BY <2>4, <4>1, <4>2
      <4>3. CASE disk'[f].mtime = disk[f].mtime
        <5>1. Info(disk[f]) \in Infos(f) /\ Info(disk[f]).mtime = disk[f].mtime
            BY DEF Infos, Info
        <5>2. disk[f].mtime <= now /\ disk[f].mtime \in Nat
            BY <2>1, <2>3, <5>1 DEF Alike, FileType
        <5>3. disk'[f].mtime # now + 1
            BY <1>1, <4>3, <5>2
        <5>4. new = Info(disk[f])
            BY <3>2, <5>3 DEF Kept
        <5> QED
            BY <4>1, <5>1, <5>4
      <4> QED
          BY <3>2, <4>2, <4>3
    <3>3. CASE now' = now + 1 /\ Anew(disk'[f], now)
      <4>1. disk'[f].born = now + 1 /\ disk'[f].mtime = now + 1
          BY <3>3 DEF Anew
      <4> HIDE DEF i, new
      <4>2. AtLeast(i, new)
          BY <1>1, <2>1, <2>3, <2>4, <4>1 DEF AtLeast
      <4> QED
          BY <2>4, <3>3, <4>1, <4>2
    <3>4. CASE disk'[f] = NoFile
        BY <3>4, NoFileTyped DEF Infos
    <3> QED
        BY <3>1, <3>2, <3>3, <3>4 DEF Moved, Moves
  <2>6. Alike(Infos(f)', now')
    <3>1. CASE new \in Infos(f)
      <4>1. Infos(f)' \in SUBSET Infos(f)
          BY <2>2, <3>1
      <4> QED
          BY <1>1, <2>1, <4>1, AlikeFewer
    <3>2. CASE now' = now + 1 /\ new.mtime = now + 1
      <4>1. Infos(f)' \in SUBSET (Infos(f) \cup {new})
          BY <2>2
      <4> HIDE DEF new
      <4>2. Alike(Infos(f)', now + 1)
          BY <1>1, <2>1, <3>2, <4>1, AlikeMore
      <4> QED
          BY <3>2, <4>2
    <3> QED
        BY <2>5, <3>1, <3>2
  <2>7. i.born <= now'
      BY <1>1, <2>1, <2>3
  <2> QED
      BY <1>1, <1>2, <2>1, <2>5, <2>6, <2>7 DEF Exists, OpenNow
<1> QED
    BY <1>3, <1>4 DEF ReadyInv, FilesAlike

(* The scan's steps.                                                       *)
LEMMA RestOfEntries ==
    ASSUME NEW s \in Seq(Files), s # <<>>, NEW f \in ToSet(s), f # Head(s)
    PROVE  f \in ToSet(Tail(s))
<1>1. /\ Len(s) \in Nat /\ DOMAIN s = 1 .. Len(s) /\ Tail(s) \in Seq(Files)
      /\ Len(Tail(s)) = Len(s) - 1
      /\ \A i \in 1 .. Len(Tail(s)) : Tail(s)[i] = s[i + 1]
      /\ DOMAIN Tail(s) = 1 .. Len(Tail(s))
    BY HeadTailProperties, LenProperties
<1>2. PICK i \in 1 .. Len(s) : s[i] = f
    BY <1>1 DEF ToSet
<1>3. i # 1
    BY <1>2
<1>4. i - 1 \in 1 .. Len(Tail(s)) /\ (i - 1) + 1 = i
    BY <1>1, <1>2, <1>3
<1>5. Tail(s)[i - 1] = f
    BY <1>1, <1>2, <1>4
<1> QED
    BY <1>1, <1>4, <1>5 DEF ToSet

LEMMA FiledReady ==
    ASSUME Inv, ReadyInv, scan.at # "idle", scan.entries # <<>>, NEW s \in SessionType,
           NEW failed \in BOOLEAN, Filed(s, failed), scan.failed => failed,
           UNCHANGED <<world, files, report>>,
           s.info \in Infos(Entry), Enough(s),
           ~failed /\ scan.found[Entry].id # 0 => Covers(s, scan.found[Entry])
    PROVE  ReadyInv'
<1>1. /\ Entry \in Files /\ scan' \in ScanType
      /\ scan'.at = "entry" /\ scan'.entries = Tail(scan.entries)
      /\ scan'.failed = failed /\ scan'.found = scan.found
      /\ scan'.next = [scan.next EXCEPT ![Entry] = s]
      /\ scan.next \in [Files -> SessionType] /\ scan.failed \in BOOLEAN
      /\ scan.entries \in Seq(Files) /\ now \in Nat
    BY FiledFacts, Facts DEF Inv
<1>2. PublishedCovers'
    BY DEF ReadyInv, PublishedCovers
<1>3. ScanCovers'
  <2> SUFFICES ASSUME ~failed, Whole(scan.found), NEW f \in Files, scan.found[f].id # 0,
                      f \notin ToSet(Tail(scan.entries))
               PROVE  Covers(scan'.next[f], scan.found[f])
      BY <1>1 DEF ScanCovers
  <2>1. CASE f = Entry
      BY <1>1, <2>1
  <2>2. CASE f # Entry
    <3>1. f \notin ToSet(scan.entries)
        BY <1>1, <2>2, RestOfEntries DEF Entry
    <3>2. ~scan.failed
        OBVIOUS
    <3> QED
        BY <1>1, <2>2, <3>1, <3>2 DEF ReadyInv, ScanCovers
  <2> QED
      BY <2>1, <2>2
<1>4. ASSUME NEW f \in Files
      PROVE  /\ Alike(Infos(f), now)' /\ (Enough(files[f]) /\ Enough(scan.next[f]))'
             /\ (scan.found[f].born <= now)'
             /\ (Exists(f) => AtLeast(scan.found[f], Info(disk[f])))'
             /\ (OpenNow(f) => AtLeast(scan.found[f], scan.parsed.info))'
  <2>1. /\ Alike(Infos(f), now) /\ Infos(f) \in SUBSET InfoType
        /\ Enough(files[f]) /\ Enough(scan.next[f]) /\ scan.found[f].born <= now
        /\ Exists(f) => AtLeast(scan.found[f], Info(disk[f]))
      BY InfosTyped DEF ReadyInv, FilesAlike
  <2>2. ~OpenNow(f)' /\ UNCHANGED <<now, disk, files>>
      BY <1>1 DEF OpenNow, world
  <2>3. (f = Entry /\ scan'.next[f] = s) \/ scan'.next[f] = scan.next[f]
      BY <1>1
  <2>4. Infos(f)' \in SUBSET Infos(f)
      BY <1>1, <2>2, <2>3 DEF Infos
  <2>5. Alike(Infos(f)', now)
      BY <1>1, <2>1, <2>4, AlikeFewer
  <2> QED
      BY <1>1, <2>1, <2>2, <2>3, <2>5 DEF Exists
<1> QED
    BY <1>2, <1>3, <1>4 DEF ReadyInv, FilesAlike

LEMMA ReuseReady ==
    ASSUME Inv, ReadyInv, Reuse
    PROVE  ReadyInv'
<1> DEFINE s == files[Entry]
           i == scan.found[Entry]
<1>1. scan.at # "idle" /\ scan.entries # <<>> /\ Entry \in Files /\ s \in SessionType
      /\ s # NoSession /\ i \in InfoType /\ scan.failed \in BOOLEAN
    BY Facts DEF Reuse, AtEntry, Reusable, Known, ScanType
<1>2. Filed(s, scan.failed)
    BY <1>1, DoneIsFiled DEF Reuse
<1>3. s.info \in Infos(Entry) /\ i \in Infos(Entry)
    BY DEF Infos
<1>4. s.info.mtime = i.mtime
    BY <1>1 DEF Reuse, Reusable, SessionType, InfoType
<1>5. s.info = i /\ Enough(s)
    BY <1>1, <1>3, <1>4 DEF ReadyInv, FilesAlike, Alike
<1>6. Covers(s, i)
    BY <1>1, <1>5 DEF Covers, Enough, InfoType
<1>7. UNCHANGED <<world, files, report>>
    BY DEF Reuse, published
<1> HIDE DEF s
<1> QED
    BY <1>1, <1>2, <1>3, <1>5, <1>6, <1>7, FiledReady

LEMMA FailedReady ==
    ASSUME Inv, ReadyInv, scan.at # "idle", scan.entries # <<>>, Failed,
           UNCHANGED <<world, files, report>>
    PROVE  ReadyInv'
<1> DEFINE old == files[Entry]
           s == IF Known(Entry) THEN [old EXCEPT !.parse.errors = @ + 1] ELSE NoSession
<1>1. Entry \in Files /\ old \in SessionType /\ old.parse \in ParseType
    BY Facts DEF SessionType
<1>2. Filed(s, TRUE)
    BY DEF Failed, Filed
<1>3. Enough(old) /\ old.info \in Infos(Entry) /\ Info(NoFile) \in Infos(Entry)
    BY <1>1 DEF ReadyInv, FilesAlike, Infos
<1>4. PICK p \in ParseType : p = [old.parse EXCEPT !.errors = @ + 1]
  <2>1. PICK more \in Nat : more = old.parse.errors + 1
      BY <1>1 DEF ParseType
  <2>2. [old.parse EXCEPT !.errors = more] \in ParseType
      BY <1>1 DEF ParseType
  <2> QED
      BY <2>1, <2>2
<1> HIDE DEF old
<1>5. s = [old EXCEPT !.parse = p] \/ s = NoSession
    BY <1>1, <1>4 DEF SessionType, old
<1> HIDE DEF s
<1>6. s \in SessionType /\ s.info \in Infos(Entry) /\ Enough(s)
  <2>1. CASE s = [old EXCEPT !.parse = p]
    <3>1. s \in SessionType /\ s.info = old.info /\ s.torn = old.torn /\ s.offset = old.offset
        BY <1>1, <2>1 DEF SessionType
    <3> QED
        BY <1>3, <3>1 DEF Enough
  <2>2. CASE s = NoSession
    <3>1. s.info = Info(NoFile) /\ s.offset = 0
        BY <2>2 DEF NoSession
    <3>2. Info(NoFile).size = 0
        BY DEF Info, NoFile, Size
    <3> QED
        BY <1>3, <2>2, <3>1, <3>2, SoundNone DEF Enough
  <2> QED
      BY <1>5, <2>1, <2>2
<1> QED
    BY <1>1, <1>2, <1>6, FiledReady

LEMMA ReadSucceedsReady ==
    ASSUME Inv, ReadyInv, ReadSucceeds, Inv'
    PROVE  ReadyInv'
<1> DEFINE file == disk[Entry]
           r == scan.parsed
           i == scan.found[Entry]
           s == [r EXCEPT !.hashes = Ends(file.lines, r.offset), !.base = r.parse.activities,
                          !.parse = Finish(r.parse)]
<1>1. /\ scan.at = "read" /\ scan.entries # <<>> /\ Entry \in Files
      /\ file \in FileType /\ r \in SessionType /\ i \in InfoType
      /\ scan \in ScanType /\ scan.failed \in BOOLEAN
    BY Facts DEF ReadSucceeds, AtEnd, Inv, SessionInv, ScanType
<1>2. Done(s) /\ UNCHANGED <<world, files, report>>
    BY DEF ReadSucceeds, published
<1>3. OpenNow(Entry)
    BY <1>1 DEF OpenNow, Entry
<1>4. /\ r.info \in Infos(Entry) /\ AtLeast(i, r.info)
      /\ r.torn \/ r.info.size <= Size(file)
      /\ r.info.id # 0
    BY <1>1, <1>3 DEF ReadyInv, FilesAlike, Infos, Inv, SessionInv, Reading
<1>5. Size(file) \in Nat /\ Len(file.lines) \in Nat /\ Size(file) \div 2 = Len(file.lines)
    BY <1>1, SizeTyped
<1>6. r.offset \in Nat /\ r.info.size \in Nat /\ r.info.born \in Nat
    BY <1>1 DEF SessionType, InfoType
<1>7. ~r.torn => r.offset >= r.info.size \div 2
  <2> SUFFICES ASSUME ~r.torn PROVE r.offset >= r.info.size \div 2
      OBVIOUS
  <2>1. r.info.size <= Size(file)
      BY <1>4
  <2>2. 2 * (r.offset + 1) > r.info.size \/ r.offset + 1 > Len(file.lines)
      BY <1>5, <1>6 DEF ReadSucceeds, AtEnd, LineThere
  <2> HIDE DEF r, file
  <2>3. CASE 2 * (r.offset + 1) > r.info.size
      BY <1>6, <2>3
  <2>4. CASE r.offset + 1 > Len(file.lines)
      BY <1>5, <1>6, <2>1, <2>4
  <2> QED
      BY <2>2, <2>3, <2>4
<1>8. s.info = r.info /\ s.torn = r.torn /\ s.offset = r.offset
    BY <1>1 DEF SessionType
<1>9. s \in SessionType
  <2>1. scan.next' = [scan.next EXCEPT ![Entry] = s] /\ scan.next \in [Files -> SessionType]
      BY <1>1, <1>2, Facts DEF Done, ScanType
  <2>2. scan'.next[Entry] = s
      BY <1>1, <2>1
  <2>3. scan'.next \in [Files -> SessionType]
      BY DEF Inv, TypeOK
  <2> QED
      BY <1>1, <2>2, <2>3
<1> HIDE DEF s
<1>10. Filed(s, scan.failed)
    BY <1>2, <1>9, DoneIsFiled
<1>11. Enough(s) /\ s.info \in Infos(Entry)
    BY <1>4, <1>7, <1>8 DEF Enough
<1>12. Covers(s, i)
  <2>1. s # NoSession
    <3>1. NoSession.info.id = 0
        BY DEF NoSession, Info, NoFile
    <3> QED
        BY <1>4, <1>8, <3>1
  <2>2. i.size \in Nat /\ i.born \in Nat
      BY <1>1 DEF InfoType
  <2> HIDE DEF i, r
  <2>3. i.born <= r.info.born /\ (i.born = r.info.born => i.size \div 2 <= r.info.size \div 2)
      BY <1>4, <1>6, <2>2 DEF AtLeast
  <2>4. r.info.size \div 2 \in Nat /\ i.size \div 2 \in Nat
      BY <1>6, <2>2
  <2> QED
      BY <1>6, <1>7, <1>8, <2>1, <2>2, <2>3, <2>4 DEF Covers
<1> QED
    BY <1>1, <1>2, <1>9, <1>10, <1>11, <1>12, FiledReady

(* A step that changes only what is being read.                            *)
LEMMA EntryReady ==
    ASSUME Inv, ReadyInv, scan.entries # <<>>, scan.at # "idle",
           UNCHANGED <<world, files, report>>,
           scan'.entries = scan.entries, scan'.failed = scan.failed, scan'.found = scan.found,
           scan'.next = scan.next, scan'.at = "read",
           scan'.parsed.info \in Infos(Entry),
           AtLeast(scan.found[Entry], scan'.parsed.info)
    PROVE  ReadyInv'
<1>1. PublishedCovers' /\ ScanCovers'
    BY DEF ReadyInv, PublishedCovers, ScanCovers
<1>2. ASSUME NEW f \in Files
      PROVE  /\ Alike(Infos(f), now)' /\ (Enough(files[f]) /\ Enough(scan.next[f]))'
             /\ (scan.found[f].born <= now)'
             /\ (Exists(f) => AtLeast(scan.found[f], Info(disk[f])))'
             /\ (OpenNow(f) => AtLeast(scan.found[f], scan.parsed.info))'
  <2>1. /\ Alike(Infos(f), now) /\ Infos(f) \in SUBSET InfoType /\ now \in Nat
        /\ Enough(files[f]) /\ Enough(scan.next[f]) /\ scan.found[f].born <= now
        /\ Exists(f) => AtLeast(scan.found[f], Info(disk[f]))
      BY InfosTyped, Facts DEF ReadyInv, FilesAlike
  <2>2. UNCHANGED <<now, disk, files>> /\ (OpenNow(f)' => f = Entry)
      BY DEF OpenNow, Entry, world
  <2>3. Infos(f)' \in SUBSET Infos(f)
      BY <2>2 DEF Infos
  <2>4. Alike(Infos(f)', now)
      BY <2>1, <2>3, AlikeFewer
  <2> QED
      BY <2>1, <2>2, <2>4 DEF Exists
<1> QED
    BY <1>1, <1>2 DEF ReadyInv, FilesAlike

LEMMA OpenReady ==
    ASSUME Inv, ReadyInv, Open
    PROVE  ReadyInv'
<1> DEFINE file == disk[Entry]
           from == IF ~scan.full /\ Continues(files[Entry], file)
                   THEN Clone(files[Entry]) ELSE NoSession
           s == [from EXCEPT !.info = Info(file)]
<1>1. /\ scan.entries # <<>> /\ scan.at = "entry" /\ Entry \in Files /\ Exists(Entry)
      /\ scan \in ScanType /\ files[Entry] \in SessionType
    BY Facts DEF Open, AtEntry
<1>2. scan' = [scan EXCEPT !.at = "read", !.parsed = s]
    BY DEF Open
<1>3. s.info = Info(file)
  <2>1. Clone(files[Entry]) = [files[Entry] EXCEPT !.parse = [@ EXCEPT !.activities = files[Entry].base]]
      BY <1>1 DEF Clone, SessionType
  <2>2. CASE from = NoSession
      BY <2>2 DEF NoSession
  <2>3. CASE from = Clone(files[Entry])
      BY <1>1, <2>1, <2>3 DEF SessionType
  <2> QED
      BY <2>2, <2>3
<1> HIDE DEF s
<1>4. /\ scan'.at = "read" /\ scan'.parsed = s
      /\ scan'.entries = scan.entries /\ scan'.next = scan.next /\ scan'.failed = scan.failed
      /\ scan'.found = scan.found
    BY <1>1, <1>2 DEF ScanType
<1>5. Info(file) \in Infos(Entry) /\ AtLeast(scan.found[Entry], Info(file))
    BY <1>1 DEF Infos, ReadyInv, FilesAlike
<1>6. UNCHANGED <<world, files, report>>
    BY DEF Open, published
<1> QED
    BY <1>1, <1>3, <1>4, <1>5, <1>6, EntryReady

LEMMA ReadLineReady ==
    ASSUME Inv, ReadyInv, ReadLine
    PROVE  ReadyInv'
<1>1. /\ scan.at = "read" /\ scan.entries # <<>> /\ Entry \in Files
      /\ scan \in ScanType /\ scan.parsed \in SessionType
    BY Facts DEF ReadLine, Inv, SessionInv
<1>2. PICK n, q : scan' = [scan EXCEPT !.parsed.offset = n, !.parsed.parse = q]
    BY DEF ReadLine
<1>3. /\ scan'.at = "read" /\ scan'.parsed.info = scan.parsed.info
      /\ scan'.entries = scan.entries /\ scan'.next = scan.next /\ scan'.failed = scan.failed
      /\ scan'.found = scan.found
    BY <1>1, <1>2 DEF ScanType, SessionType
<1>4. OpenNow(Entry)
    BY <1>1 DEF OpenNow, Entry
<1>5. scan.parsed.info \in Infos(Entry) /\ AtLeast(scan.found[Entry], scan.parsed.info)
    BY <1>1, <1>4 DEF Infos, ReadyInv, FilesAlike
<1>6. UNCHANGED <<world, files, report>>
    BY DEF ReadLine, published
<1> QED
    BY <1>1, <1>3, <1>5, <1>6, EntryReady

LEMMA IdleFacts ==
    /\ Idle.at = "idle" /\ Idle.next = NoSessions /\ Idle.entries = <<>>
    /\ Idle.found = [f \in Files |-> Info(NoFile)]
    /\ Info(NoFile).born = 0 /\ Info(NoFile).size = 0 /\ Info(NoFile).id = 0
    /\ NoSession.info = Info(NoFile) /\ Enough(NoSession)
BY DEF Idle, Info, NoFile, Size, NoSession, Enough

LEMMA PublishReady ==
    ASSUME Inv, ReadyInv, Publish
    PROVE  ReadyInv'
<1>1. /\ scan.at = "entry" /\ scan.entries = <<>> /\ files' = scan.next /\ scan' = Idle
      /\ scan.failed \in BOOLEAN
      /\ report' = [truncated |-> MaxFiles > 0
                          /\ Cardinality({f \in Files : scan.found[f].id # 0}) > MaxFiles,
                    error |-> scan.failed, found |-> scan.found]
      /\ UNCHANGED world
    BY Facts DEF Publish
<1>2. PublishedCovers'
  <2> SUFFICES ASSUME ~report'.error, ~report'.truncated,
                      NEW f \in Files, scan.found[f].id # 0
               PROVE  Covers(scan.next[f], scan.found[f])
      BY <1>1 DEF PublishedCovers
  <2>1. ~scan.failed /\ Whole(scan.found)
      BY <1>1 DEF Whole
  <2>2. f \notin ToSet(scan.entries)
      BY <1>1 DEF ToSet
  <2> QED
      BY <1>1, <2>1, <2>2 DEF ReadyInv, ScanCovers
<1>3. ScanCovers'
    BY <1>1, IdleFacts DEF ScanCovers
<1>4. ASSUME NEW f \in Files
      PROVE  /\ Alike(Infos(f), now)' /\ (Enough(files[f]) /\ Enough(scan.next[f]))'
             /\ (scan.found[f].born <= now)'
             /\ (Exists(f) => AtLeast(scan.found[f], Info(disk[f])))'
             /\ (OpenNow(f) => AtLeast(scan.found[f], scan.parsed.info))'
  <2>1. /\ Alike(Infos(f), now) /\ Infos(f) \in SUBSET InfoType /\ now \in Nat
        /\ Enough(scan.next[f]) /\ disk[f] \in FileType
      BY InfosTyped, Facts DEF ReadyInv, FilesAlike
  <2>2. /\ scan'.next[f] = NoSession /\ scan'.found[f] = Info(NoFile) /\ ~OpenNow(f)'
        /\ UNCHANGED <<now, disk>> /\ files'[f] = scan.next[f]
      BY <1>1, IdleFacts DEF NoSessions, OpenNow, world
  <2>3. Infos(f)' \in SUBSET Infos(f)
      BY <2>2, IdleFacts DEF Infos
  <2>4. Alike(Infos(f)', now)
      BY <2>1, <2>3, AlikeFewer
  <2>5. AtLeast(Info(NoFile), Info(disk[f]))
    <3>1. Info(disk[f]).born \in Nat /\ Info(disk[f]).size \in Nat
        BY <2>1, SizeTyped DEF InfoType
    <3> QED
        BY <3>1, IdleFacts DEF AtLeast
  <2> QED
      BY <2>1, <2>2, <2>4, <2>5, IdleFacts
<1> QED
    BY <1>2, <1>3, <1>4 DEF ReadyInv, FilesAlike

LEMMA RefreshBeginsReady ==
    ASSUME Inv, ReadyInv, NEW full \in BOOLEAN, RefreshBegins(full)
    PROVE  ReadyInv'
<1>1. /\ scan'.at = "entry" /\ scan'.entries = Cut(Found)
      /\ scan'.next = NoSessions /\ scan'.found = [f \in Files |-> Info(disk[f])]
      /\ UNCHANGED <<world, files, report>>
    BY RefreshBeginsStep DEF RefreshBegins, published
<1>2. PublishedCovers'
    BY <1>1 DEF ReadyInv, PublishedCovers
<1>3. ScanCovers'
  <2> SUFFICES ASSUME Whole(scan'.found), NEW f \in Files, scan'.found[f].id # 0,
                      f \notin ToSet(Cut(Found))
               PROVE  FALSE
      BY <1>1 DEF ScanCovers
  <2>1. \A g \in Files : scan'.found[g].id = disk[g].id
      BY <1>1 DEF Info
  <2>2. There = {g \in Files : scan'.found[g].id # 0} /\ f \in There
      BY <2>1 DEF There, Exists
  <2>3. MaxFiles \in Nat /\ Cardinality(There) \in Nat
      BY MonitorAssumption, FoundIsThere DEF Inv, WorldInv
  <2>4. MaxFiles = 0 \/ Cardinality(There) <= MaxFiles
      BY <2>2, <2>3 DEF Whole
  <2> QED
      BY <2>2, <2>4, CutFound DEF Inv, WorldInv
<1>4. ASSUME NEW f \in Files
      PROVE  /\ Alike(Infos(f), now)' /\ (Enough(files[f]) /\ Enough(scan.next[f]))'
             /\ (scan.found[f].born <= now)'
             /\ (Exists(f) => AtLeast(scan.found[f], Info(disk[f])))'
             /\ (OpenNow(f) => AtLeast(scan.found[f], scan.parsed.info))'
  <2>1. /\ Alike(Infos(f), now) /\ Infos(f) \in SUBSET InfoType /\ now \in Nat
        /\ Enough(files[f]) /\ disk[f] \in FileType /\ Honest(disk[f], truth[f], now)
      BY InfosTyped, Facts DEF ReadyInv, FilesAlike, Inv, WorldInv
  <2>2. /\ scan'.next[f] = NoSession /\ scan'.found[f] = Info(disk[f]) /\ ~OpenNow(f)'
        /\ UNCHANGED <<now, disk, files>>
      BY <1>1 DEF NoSessions, OpenNow, world
  <2>3. Infos(f)' \in SUBSET Infos(f)
      BY <2>2, IdleFacts DEF Infos
  <2>4. Alike(Infos(f)', now)
      BY <2>1, <2>3, AlikeFewer
  <2>5. Info(disk[f]).born <= now /\ AtLeast(Info(disk[f]), Info(disk[f]))
    <3>1. Info(disk[f]).born = disk[f].born /\ disk[f].born \in Nat /\ Size(disk[f]) \in Nat
          /\ Info(disk[f]).size = Size(disk[f])
        BY <2>1, SizeTyped DEF Info, FileType
    <3>2. disk[f].born <= now
        BY <2>1 DEF Honest, Dates, NoFile
    <3> QED
        BY <3>1, <3>2 DEF AtLeast
  <2> QED
      BY <2>1, <2>2, <2>4, <2>5, IdleFacts
<1> QED
    BY <1>2, <1>3, <1>4 DEF ReadyInv, FilesAlike

LEMMA InitReady == Init => ReadyInv
<1> SUFFICES ASSUME Init PROVE ReadyInv
    OBVIOUS
<1>1. /\ now = 0 /\ disk = [f \in Files |-> NoFile] /\ files = NoSessions /\ scan = Idle
      /\ report.found = Idle.found
    BY DEF Init
<1>2. PublishedCovers /\ ScanCovers
    BY <1>1, IdleFacts DEF PublishedCovers, ScanCovers
<1>3. ASSUME NEW f \in Files
      PROVE  /\ Alike(Infos(f), now) /\ Enough(files[f]) /\ Enough(scan.next[f])
             /\ scan.found[f].born <= now
             /\ Exists(f) => AtLeast(scan.found[f], Info(disk[f]))
             /\ OpenNow(f) => AtLeast(scan.found[f], scan.parsed.info)
  <2>1. /\ disk[f] = NoFile /\ files[f] = NoSession /\ scan.next[f] = NoSession
        /\ scan.found[f] = Info(NoFile) /\ ~OpenNow(f)
      BY <1>1, IdleFacts DEF NoSessions, OpenNow
  <2>2. Infos(f) = {Info(NoFile)}
      BY <2>1, IdleFacts DEF Infos
  <2>3. Info(NoFile).mtime = 0 /\ NoFile.id = 0
      BY DEF Info, NoFile
  <2> QED
      BY <1>1, <2>1, <2>2, <2>3, IdleFacts DEF Alike, Exists
<1> QED
    BY <1>2, <1>3 DEF ReadyInv, FilesAlike

LEMMA StepReady == Inv /\ Inv' /\ ReadyInv /\ [Next]_vars => ReadyInv'
<1> SUFFICES ASSUME Inv, Inv', ReadyInv, [Next]_vars PROVE ReadyInv'
    OBVIOUS
<1>1. CASE \E f \in Files : Codex(f)
    BY <1>1, CodexStep, MovedReady DEF Inv
<1>2. CASE \E full \in BOOLEAN : RefreshBegins(full)
    BY <1>2, RefreshBeginsReady
<1>3. CASE ReadChanged \/ OpenMissing \/ ReadRefused
  <2>1. scan.at # "idle" /\ scan.entries # <<>> /\ Failed /\ UNCHANGED <<world, files, report>>
      BY <1>3 DEF ReadChanged, OpenMissing, ReadRefused, AtEnd, AtEntry, Inv, SessionInv, published
  <2> QED
      BY <2>1, FailedReady
<1>4. CASE Reuse \/ Open \/ ReadLine \/ ReadSucceeds \/ Publish
    BY <1>4, ReuseReady, OpenReady, ReadLineReady, ReadSucceedsReady, PublishReady
<1>5. CASE CollectFails
  <2>1. report' = [report EXCEPT !.error = TRUE] /\ UNCHANGED <<world, files, scan>>
      BY <1>5 DEF CollectFails
  <2>2. report'.error
      BY <2>1 DEF Inv, TypeOK
  <2> QED
      BY <2>1, <2>2 DEF ReadyInv, PublishedCovers, ScanCovers, FilesAlike, Infos, OpenNow, Exists,
                        world
<1>6. CASE UNCHANGED vars
    BY <1>6 DEF vars, world, published, ReadyInv, PublishedCovers, ScanCovers, FilesAlike, Infos,
                OpenNow, Exists
<1> QED
    BY <1>1, <1>2, <1>3, <1>4, <1>5, <1>6 DEF Next, RefreshStep

(* READY is never said of figures that lack something the last scan found: *)
(* what it reused, what it continued and what it read anew all cover it.   *)
THEOREM Ready == Spec => []ReadyIsComplete
<1>1. ReadyInv => ReadyIsComplete
  <2> SUFFICES ASSUME ReadyInv, SourceStatus = "READY", NEW f \in Files, report.found[f].id # 0
               PROVE  /\ Known(f)
                      /\ files[f].info.born >= report.found[f].born
                      /\ ~files[f].torn /\ files[f].info.born = report.found[f].born =>
                            files[f].offset >= report.found[f].size \div 2
      BY DEF ReadyIsComplete
  <2>1. ~report.error /\ ~report.truncated
      BY DEF SourceStatus
  <2>2. Covers(files[f], report.found[f])
      BY <2>1 DEF ReadyInv, PublishedCovers
  <2> QED
      BY <2>2 DEF Covers, Known
<1> QED
    BY <1>1, InitInv, InitReady, StepInv, StepReady, PTL DEF Spec
=============================================================================
