------------------------- MODULE LeaderboardProofs -------------------------
(***************************************************************************)
(* For any files, lines, sessions, projects and ranges: the types of       *)
(* Leaderboard; that no line is counted twice (CountedOnce), nothing from  *)
(* before the range (WithinRange) and nothing left out (OnlyLimitsHide) but*)
(* for the reasons these properties name; that charts are in order         *)
(* (SeriesInOrder); and that the ranking has one first item and no gaps    *)
(* (RankedRight).                                                          *)
(*                                                                         *)
(* The sources only have what was written (SourcesOK), so a step of theirs *)
(* changes nothing about what a request has read (Later).  What it has read*)
(* comes from the sources it has been to (Phases), from each home or Codex *)
(* session once (Apart), and is of that home (Belongs).  The ranking counts*)
(* items and what is in them, so that the answer is finite (FiniteInv).    *)
(***************************************************************************)
EXTENDS Leaderboard, FiniteSetTheorems, WellFoundedInduction, TLAPS

SourcesOK ==
    /\ SourcesTypeOK
    /\ \A f \in CodexFile : \A l \in disk[f].lines :
            SessionOfLine[l] = SessionOf[f] /\ time[l] # 0
    /\ \A f \in CodexFile : \A l \in codex[f].lines :
            SessionOfLine[l] = SessionOf[f] /\ time[l] # 0
    /\ \A f \in ClaudeFile : \A l \in claude[f] : FileOf[l] = f /\ time[l] # 0

(* What a step of the sources leaves as it was.                            *)
Later ==
    /\ now' \in Moments /\ now <= now'
    /\ \A l \in Line : time[l] # 0 => time'[l] = time[l]

LEMMA MomentsAreTimes == \A t \in Moments : t \in Nat /\ t # 0
BY DashboardAssumption

LEMMA SourcesStart == SourcesInit => SourcesOK
<1> SUFFICES ASSUME SourcesInit PROVE SourcesOK
    OBVIOUS
<1>1. SourcesTypeOK
    BY DEF SourcesInit, SourcesTypeOK, NoFile
<1> QED
    BY <1>1 DEF SourcesInit, SourcesOK, NoFile

LEMMA WorldStep == SourcesOK /\ World => SourcesOK' /\ Later
<1> SUFFICES ASSUME SourcesOK, World PROVE SourcesOK' /\ Later
    OBVIOUS
<1> USE MomentsAreTimes DEF SourcesOK, SourcesTypeOK, Later
<1>1. CASE Tick
    BY <1>1 DEF Tick
<1>2. ASSUME NEW l \in CodexLine, NEW f \in CodexFile, WriteCodex(l, f) PROVE SourcesOK' /\ Later
  <2>1. l \in Line /\ time[l] = 0 /\ time' = [time EXCEPT ![l] = now]
    BY <1>2 DEF WriteCodex, Line
  <2>2. SourcesTypeOK'
    BY <1>2, <2>1 DEF WriteCodex
  <2>3. \A m \in Line : time[m] # 0 => time'[m] = time[m] /\ time'[m] # 0
    BY <2>1
  <2>4. \A g \in CodexFile : \A m \in disk'[g].lines : (m = l /\ g = f) \/ m \in disk[g].lines
    BY <1>2 DEF WriteCodex
  <2>5. SessionOfLine[l] = SessionOf[f] /\ time'[l] # 0
    BY <1>2, <2>1 DEF WriteCodex
  <2>6. \A g \in CodexFile : \A m \in disk[g].lines : m \in Line
    BY DEF Line
  <2>7. \A g \in CodexFile : \A m \in codex[g].lines : m \in Line
    BY DEF Line
  <2>8. \A g \in ClaudeFile : \A m \in claude[g] : m \in Line
    BY DEF Line
  <2>9. now' = now /\ codex' = codex /\ claude' = claude
    BY <1>2 DEF WriteCodex
  <2> QED
    BY <2>2, <2>3, <2>4, <2>5, <2>6, <2>7, <2>8, <2>9
<1>3. ASSUME NEW l \in ClaudeLine \cup OtherLine, WriteOther(l) PROVE SourcesOK' /\ Later
  <2>1. l \in Line /\ time[l] = 0 /\ time' = [time EXCEPT ![l] = now]
    BY <1>3 DEF WriteOther, Line
  <2>2. SourcesTypeOK'
    BY <1>3, <2>1 DEF WriteOther
  <2>3. \A m \in Line : time[m] # 0 => time'[m] = time[m] /\ time'[m] # 0
    BY <2>1
  <2>4. \A g \in CodexFile : \A m \in disk[g].lines \cup codex[g].lines : m \in Line
    BY DEF Line
  <2>5. \A g \in ClaudeFile : \A m \in claude[g] : m \in Line
    BY DEF Line
  <2>6. now' = now /\ codex' = codex /\ claude' = claude /\ disk' = disk
    BY <1>3 DEF WriteOther
  <2> QED
    BY <2>2, <2>3, <2>4, <2>5, <2>6
<1>4. ASSUME NEW f \in CodexFile, NEW g \in CodexFile, Copy(f, g) PROVE SourcesOK' /\ Later
    BY <1>4 DEF Copy
<1>5. ASSUME NEW F \in SUBSET CodexFile, PublishCodex(F) PROVE SourcesOK' /\ Later
    BY <1>5 DEF PublishCodex
<1>6. ASSUME NEW f \in ClaudeFile, PublishClaude(f) PROVE SourcesOK' /\ Later
    BY <1>6 DEF PublishClaude, WrittenTo
<1> QED
    BY <1>1, <1>2, <1>3, <1>4, <1>5, <1>6 DEF World

----------------------------------------------------------------------------
(* Where the figures of a request come from.                               *)

All(x) == x.usage \cup x.calls \cup x.tasks
Phases ==
    /\ req.at \in {"idle", "log"} => req.figures = {}
    /\ \A x \in req.figures :
        /\ req.at = "fleet" => x.provider = "google" /\ x.home \in Log
        /\ req.at = "codex" => x.provider = "google"
        /\ req.at = "claude" => x.provider # "claude"
Belongs(x) ==
    /\ x.provider = "google" => x.home \in OtherLine /\ All(x) \subseteq {x.home}
    /\ x.provider = "openai" => /\ x.home \in CodexFile
                                /\ \A l \in All(x) : /\ l \in CodexLine
                                                     /\ SessionOfLine[l] = SessionOf[x.home]
    /\ x.provider = "claude" => /\ x.home \in ClaudeFile
                                /\ \A l \in All(x) : l \in ClaudeLine /\ FileOf[l] = x.home
Apart(x, y) ==
    x.provider = y.provider /\ x # y =>
        IF x.provider = "openai" THEN SessionOf[x.home] # SessionOf[y.home] ELSE x.home # y.home
OnceInv ==
    /\ TypeOK /\ SourcesOK /\ Phases
    /\ \A x \in req.figures : Belongs(x)
    /\ \A x, y \in req.figures : Apart(x, y)

(* One of the figures a source adds.                                       *)
Right(x, provider) ==
    x \in FigureType /\ x.provider = provider /\ Belongs(x)

LEMMA LogFigure ==
    ASSUME SourcesOK, NEW l \in Log \cap Written
    PROVE  LET x == Figure("google", l, {l}, {l}, {}, {Timestamp(l)})
           IN  Right(x, "google") /\ x.home = l
<1>1. l \in OtherLine /\ l \in Line /\ l \in Home
    BY LeaderboardAssumption DEF Line, Home
<1>2. Timestamp(l) \in Int
  <2>1. time[l] \in Moments
    BY <1>1 DEF SourcesOK, SourcesTypeOK, Written
  <2> QED
    BY <2>1, LeaderboardAssumption DEF Timestamp
<1> QED
    BY <1>1, <1>2 DEF Right, Figure, FigureType, Belongs, All

LEMMA TaskFigure ==
    ASSUME SourcesOK, NEW k \in Task \cap Written
    PROVE  LET x == Figure("google", k, {}, {}, {k}, {StartedAt(k)})
           IN  Right(x, "google") /\ x.home = k
<1>1. k \in OtherLine /\ k \in Line /\ k \in Home
    BY LeaderboardAssumption DEF Line, Home
<1>2. StartedAt(k) \in Int
  <2>1. time[k] \in Moments
    BY <1>1 DEF SourcesOK, SourcesTypeOK, Written
  <2> QED
    BY <2>1, LeaderboardAssumption DEF StartedAt
<1> QED
    BY <1>1, <1>2 DEF Right, Figure, FigureType, Belongs, All

(* The row of a chosen file, and that of a Claude file, as figures.        *)
LEMMA CodexFigure ==
    ASSUME SourcesOK, NEW f \in CodexFile, NEW cutoff
    PROVE  LET x == FromCodex(CodexRow(f, cutoff))
           IN  Right(x, "openai") /\ x.home = f
<1> DEFINE row == CodexRow(f, cutoff)
<1>1. row.usage \subseteq codex[f].lines /\ row.tools \subseteq codex[f].lines /\ row.file = f
    BY DEF CodexRow, Usage, Tools, Since
<1>2. codex[f].lines \subseteq CodexLine /\ CodexLine \subseteq Line
    BY DEF SourcesOK, SourcesTypeOK, Line
<1>3. row.updated \subseteq Nat
    BY <1>2, MomentsAreTimes DEF SourcesOK, SourcesTypeOK, CodexRow
<1>4. \A l \in codex[f].lines : SessionOfLine[l] = SessionOf[f]
    BY DEF SourcesOK
<1>5. f \in Home
    BY DEF Home
<1> HIDE DEF row
<1> QED
    BY <1>1, <1>2, <1>3, <1>4, <1>5 DEF row, Right, FromCodex, Figure, FigureType, Belongs, All

LEMMA ClaudeFigure ==
    ASSUME SourcesOK, NEW f \in ClaudeFile, NEW cutoff
    PROVE  LET x == FromClaude(ClaudeRow(f, cutoff))
           IN  Right(x, "claude") /\ x.home = f
<1> DEFINE row == ClaudeRow(f, cutoff)
<1>1. /\ row.usage \subseteq claude[f] /\ row.tools \subseteq claude[f]
      /\ row.turns \subseteq claude[f] /\ row.file = f
    BY DEF ClaudeRow, Usage, Tools, Turns, Since
<1>2. claude[f] \subseteq ClaudeLine /\ ClaudeLine \subseteq Line
    BY DEF SourcesOK, SourcesTypeOK, Line
<1>3. row.updated \subseteq Nat
    BY <1>2, MomentsAreTimes DEF SourcesOK, SourcesTypeOK, ClaudeRow
<1>4. \A l \in claude[f] : FileOf[l] = f
    BY DEF SourcesOK
<1>5. f \in Home
    BY DEF Home
<1> HIDE DEF row
<1> QED
    BY <1>1, <1>2, <1>3, <1>4, <1>5 DEF row, Right, FromClaude, Figure, FigureType, Belongs, All

(* Two files of one session are not both chosen.                           *)
LEMMA OneChosen ==
    ASSUME SourcesOK, NEW f \in CodexFile, NEW g \in CodexFile,
           Chosen(f), Chosen(g), SessionOf[f] = SessionOf[g]
    PROVE  f = g
<1>1. codex[f].mtime \in Nat /\ codex[g].mtime \in Nat
    BY MomentsAreTimes DEF SourcesOK, SourcesTypeOK
<1>2. f \in Nat /\ g \in Nat
    BY DashboardAssumption
<1> QED
    BY <1>1, <1>2 DEF Chosen, Known, Precedes

(* What a read adds keeps the invariant when the figures it adds are of a  *)
(* provider or of homes that are not there yet.                            *)
LEMMA ReadsKeep ==
    ASSUME OnceInv, NEW at, NEW figures, NEW there, Reads(at, figures, there),
           at \in {"fleet", "codex", "claude", "done"}, there \subseteq Line,
           NEW provider, \A x \in figures : Right(x, provider),
           \A x, y \in figures : Apart(x, y),
           \A x \in figures, y \in req.figures : y.provider = provider =>
                provider # "openai" /\ x.home # y.home
    PROVE  /\ TypeOK' /\ SourcesOK' /\ req'.at = at /\ req'.figures = req.figures \cup figures
           /\ \A x \in req'.figures : Belongs(x)
           /\ \A x, y \in req'.figures : Apart(x, y)
<1>1. SourcesOK' /\ SourcesTypeOK'
    BY DEF OnceInv, SourcesOK, SourcesTypeOK, Reads, sources
<1>2. /\ req'.at = at /\ req'.figures = req.figures \cup figures
      /\ req'.missed = req.missed \cup (there \ Counted(figures))
      /\ req'.range = req.range /\ req'.since = req.since
    BY DEF Reads, OnceInv, TypeOK
<1>3. TypeOK'
  <2>1. req.figures \cup figures \in SUBSET FigureType
    BY DEF OnceInv, TypeOK, Right
  <2>2. req.missed \cup (there \ Counted(figures)) \in SUBSET Line
    BY DEF OnceInv, TypeOK
  <2> QED
    BY <1>1, <2>1, <2>2 DEF OnceInv, TypeOK, Reads
<1>4. \A x \in req'.figures : Belongs(x)
    BY <1>2 DEF Right, OnceInv
<1>5. \A x, y \in req'.figures : Apart(x, y)
    BY <1>2 DEF Right, OnceInv, Apart
<1> QED
    BY <1>1, <1>2, <1>3, <1>4, <1>5

LEMMA ReadLogOnce == OnceInv /\ ReadLog => OnceInv'
<1> SUFFICES ASSUME OnceInv, ReadLog PROVE OnceInv'
    OBVIOUS
<1> DEFINE Fig(l) == Figure("google", l, {l}, {l}, {}, {Timestamp(l)})
           figures == {Fig(l) : l \in LogRows(req.range)}
           there == Log \cap Written
<1>1. Reads("fleet", figures, there) /\ there \subseteq Line /\ req.figures = {}
    BY DEF ReadLog, Written, OnceInv, Phases
<1>2. \A x \in figures : \E l \in Log \cap Written : x = Fig(l)
    BY DEF LogRows
<1>3. \A l \in Log \cap Written : Right(Fig(l), "google") /\ Fig(l).home = l
    BY LogFigure DEF OnceInv
<1> HIDE DEF Fig, figures, there
<1>4. \A x \in figures : Right(x, "google") /\ x.home \in Log
    BY <1>2, <1>3
<1>5. \A x, y \in figures : Apart(x, y)
    BY <1>2, <1>3, <1>4 DEF Apart, Right
<1>6. /\ TypeOK' /\ SourcesOK' /\ req'.at = "fleet" /\ req'.figures = req.figures \cup figures
      /\ \A x \in req'.figures : Belongs(x)
      /\ \A x, y \in req'.figures : Apart(x, y)
    BY <1>1, <1>4, <1>5, ReadsKeep
<1>7. Phases'
    BY <1>1, <1>4, <1>6 DEF Phases, Right
<1> QED
    BY <1>6, <1>7 DEF OnceInv

LEMMA ReadFleetOnce == OnceInv /\ ReadFleet => OnceInv'
<1> SUFFICES ASSUME OnceInv, ReadFleet PROVE OnceInv'
    OBVIOUS
<1> DEFINE Fig(k) == Figure("google", k, {}, {}, {k}, {StartedAt(k)})
           figures == {Fig(k) : k \in TaskRows(req.range)}
<1>1. /\ Reads("codex", figures, {})
      /\ \A x \in req.figures : x.provider = "google" /\ x.home \in Log
    BY DEF ReadFleet, OnceInv, Phases
<1>2. \A x \in figures : \E k \in Task \cap Written : x = Fig(k)
    BY DEF TaskRows
<1>3. \A k \in Task \cap Written : Right(Fig(k), "google") /\ Fig(k).home = k
    BY TaskFigure DEF OnceInv
<1> HIDE DEF Fig, figures
<1>4. \A x \in figures : Right(x, "google") /\ x.home \in Task
    BY <1>2, <1>3
<1>5. \A x, y \in figures : Apart(x, y)
    BY <1>2, <1>3, <1>4 DEF Apart, Right
<1>6. \A x \in figures, y \in req.figures : x.home # y.home
    BY <1>1, <1>4, LeaderboardAssumption
<1>7. /\ TypeOK' /\ SourcesOK' /\ req'.at = "codex" /\ req'.figures = req.figures \cup figures
      /\ \A x \in req'.figures : Belongs(x)
      /\ \A x, y \in req'.figures : Apart(x, y)
    BY <1>1, <1>4, <1>5, <1>6, ReadsKeep
<1>8. Phases'
    BY <1>1, <1>4, <1>7 DEF Phases, Right
<1> QED
    BY <1>7, <1>8 DEF OnceInv

LEMMA ReadCodexOnce == OnceInv /\ ReadCodex => OnceInv'
<1> SUFFICES ASSUME OnceInv, ReadCodex PROVE OnceInv'
    OBVIOUS
<1> DEFINE Fig(f) == FromCodex(CodexRow(f, CodexRangeCutoff(req.range)))
           figures == {FromCodex(row) : row \in CodexSessions(req.range)}
           there == Usage(CodexThere)
<1>1. Reads("claude", figures, there) /\ there \subseteq Line
    BY DEF ReadCodex, Usage, CodexThere, Line
<1>2. \A x \in req.figures : x.provider = "google"
    BY DEF ReadCodex, OnceInv, Phases
<1>3. \A x \in figures : \E f \in CodexFile : Chosen(f) /\ x = Fig(f)
    BY DEF CodexSessions
<1>4. \A f \in CodexFile : Right(Fig(f), "openai") /\ Fig(f).home = f
    BY CodexFigure DEF OnceInv
<1> HIDE DEF Fig, figures, there
<1>5. \A x \in figures : Right(x, "openai")
    BY <1>3, <1>4
<1>6. \A x, y \in figures : Apart(x, y)
    BY <1>3, <1>4, OneChosen DEF Apart, Right, OnceInv
<1>7. /\ TypeOK' /\ SourcesOK' /\ req'.at = "claude" /\ req'.figures = req.figures \cup figures
      /\ \A x \in req'.figures : Belongs(x)
      /\ \A x, y \in req'.figures : Apart(x, y)
    BY <1>1, <1>2, <1>5, <1>6, ReadsKeep
<1>8. Phases'
    BY <1>2, <1>5, <1>7 DEF Phases, Right
<1> QED
    BY <1>7, <1>8 DEF OnceInv

LEMMA ReadClaudeOnce == OnceInv /\ ReadClaude => OnceInv'
<1> SUFFICES ASSUME OnceInv, ReadClaude PROVE OnceInv'
    OBVIOUS
<1>1. PICK rows \in ClaudeSessions(req.range) :
            Reads("done", {FromClaude(row) : row \in rows},
                  UNION {Usage(claude[f]) : f \in ClaudeFile})
    BY DEF ReadClaude
<1> DEFINE Fig(f) == FromClaude(ClaudeRow(f, ClaudeRangeCutoff(req.range)))
           figures == {FromClaude(row) : row \in rows}
           there == UNION {Usage(claude[f]) : f \in ClaudeFile}
<1>2. there \subseteq Line
    BY DEF OnceInv, SourcesOK, SourcesTypeOK, Usage, Line
<1>3. \A x \in req.figures : x.provider # "claude"
    BY DEF ReadClaude, OnceInv, Phases
<1>4. \A x \in figures : \E f \in ClaudeFile : x = Fig(f)
    BY DEF ClaudeSessions, FirstRows, AllClaudeSessions
<1>5. \A f \in ClaudeFile : Right(Fig(f), "claude") /\ Fig(f).home = f
    BY ClaudeFigure DEF OnceInv
<1>6. Reads("done", figures, there)
    BY <1>1
<1> HIDE DEF Fig, figures, there
<1>7. \A x \in figures : Right(x, "claude")
    BY <1>4, <1>5
<1>8. \A x, y \in figures : Apart(x, y)
    BY <1>4, <1>5 DEF Apart, Right
<1>9. /\ TypeOK' /\ SourcesOK' /\ req'.at = "done"
      /\ \A x \in req'.figures : Belongs(x)
      /\ \A x, y \in req'.figures : Apart(x, y)
    BY <1>2, <1>3, <1>6, <1>7, <1>8, ReadsKeep
<1>10. Phases'
    BY <1>9 DEF Phases
<1> QED
    BY <1>9, <1>10 DEF OnceInv

LEMMA RangeStartIsInt == SourcesTypeOK => \A r : RangeStart(r) \in Int
BY DashboardAssumption DEF SourcesTypeOK, RangeStart

LEMMA AskOnce ==
    ASSUME OnceInv, NEW r \in Ranges, Ask(r)
    PROVE  OnceInv'
<1>1. SourcesOK' /\ SourcesTypeOK'
    BY DEF Ask, OnceInv, SourcesOK, SourcesTypeOK, sources
<1>2. RangeStart(r) \in Int
    BY RangeStartIsInt DEF OnceInv, SourcesOK
<1>3. req'.figures = {} /\ TypeOK'
    BY <1>1, <1>2 DEF Ask, NoRequest, TypeOK
<1>4. req'.at = "log"
    BY DEF Ask, NoRequest
<1> QED
    BY <1>1, <1>3, <1>4 DEF OnceInv, Phases

LEMMA EndOnce ==
    ASSUME OnceInv, UNCHANGED sources, req' = NoRequest
    PROVE  OnceInv'
<1>1. SourcesOK' /\ SourcesTypeOK'
    BY DEF OnceInv, SourcesOK, SourcesTypeOK, sources
<1>2. req'.figures = {} /\ TypeOK'
    BY <1>1 DEF OnceInv, NoRequest, TypeOK
<1> QED
    BY <1>1, <1>2 DEF OnceInv, Phases

LEMMA WorldOnce == OnceInv /\ World /\ UNCHANGED req => OnceInv'
<1> SUFFICES ASSUME OnceInv, World, UNCHANGED req PROVE OnceInv'
    OBVIOUS
<1>1. SourcesOK' /\ SourcesTypeOK'
    BY WorldStep DEF OnceInv, SourcesOK
<1>2. TypeOK' /\ Phases'
    BY <1>1 DEF OnceInv, TypeOK, Phases
<1> QED
    BY <1>1, <1>2 DEF OnceInv

LEMMA OnceStart == Init => OnceInv
<1> SUFFICES ASSUME Init PROVE OnceInv
    OBVIOUS
<1>1. SourcesOK /\ SourcesTypeOK
    BY SourcesStart DEF Init, SourcesOK
<1>2. req = NoRequest /\ req.figures = {}
    BY DEF Init, NoRequest
<1>3. TypeOK
    BY <1>1, <1>2 DEF TypeOK, NoRequest
<1> QED
    BY <1>1, <1>2, <1>3 DEF OnceInv, Phases

LEMMA OnceStep == OnceInv /\ [Next]_vars => OnceInv'
<1> SUFFICES ASSUME OnceInv, [Next]_vars PROVE OnceInv'
    OBVIOUS
<1>1. CASE World /\ UNCHANGED req
    BY <1>1, WorldOnce
<1>2. ASSUME NEW r \in Ranges, Ask(r) PROVE OnceInv'
    BY <1>2, AskOnce
<1>3. CASE ReadLog
    BY <1>3, ReadLogOnce
<1>4. CASE ReadFleet
    BY <1>4, ReadFleetOnce
<1>5. CASE QueryFails \/ Reply
    BY <1>5, EndOnce DEF QueryFails, Reply
<1>6. CASE ReadCodex
    BY <1>6, ReadCodexOnce
<1>7. CASE ReadClaude
    BY <1>7, ReadClaudeOnce
<1>8. CASE UNCHANGED vars
  <2>1. SourcesOK' /\ SourcesTypeOK'
    BY <1>8 DEF OnceInv, SourcesOK, SourcesTypeOK, vars, sources
  <2>2. req' = req
    BY <1>8 DEF vars
  <2>3. TypeOK' /\ Phases'
    BY <2>1, <2>2 DEF OnceInv, TypeOK, Phases
  <2> QED
    BY <2>1, <2>2, <2>3 DEF OnceInv
<1> QED
    BY <1>1, <1>2, <1>3, <1>4, <1>5, <1>6, <1>7, <1>8 DEF Next, Request

THEOREM OnceInvariant == Spec => []OnceInv
BY OnceStart, OnceStep, PTL DEF Spec

(* Every variable of Leaderboard keeps its type.                           *)
THEOREM TypeCorrect == Spec => []TypeOK
<1>1. OnceInv => TypeOK
    BY DEF OnceInv
<1> QED
    BY <1>1, OnceInvariant, PTL

(* No line is counted twice in an answer: not by two of the four reads, nor*)
(* by two files of one Codex session.                                      *)
THEOREM EveryLineOnce == Spec => []CountedOnce
<1>1. OnceInv => CountedOnce
  <2> SUFFICES ASSUME OnceInv, NEW x \in req.figures, NEW y \in req.figures, x # y,
                      NEW l, l \in All(x), l \in All(y)
               PROVE  FALSE
    BY DEF CountedOnce, All
  <2>1. Belongs(x) /\ Belongs(y) /\ Apart(x, y)
    BY DEF OnceInv
  <2>2. x.provider \in {"google", "openai", "claude"} /\ y.provider \in {"google", "openai", "claude"}
    BY DEF OnceInv, TypeOK, FigureType
  <2> QED
    BY <2>1, <2>2, DashboardAssumption DEF Belongs, Apart
<1> QED
    BY <1>1, OnceInvariant, PTL

----------------------------------------------------------------------------
(* Ranges.                                                                 *)

RangeName == {"today", "24h", "1d", "7d", "30d", "month", "all"}

LEMMA RangesAreNamed == TypeOK => req.range \in RangeName
BY DashboardAssumption DEF TypeOK, RangeName

(* As time passes a range begins later.                                    *)
LEMMA RangeStartGrows ==
    ASSUME SourcesTypeOK, Later, NEW r
    PROVE  /\ RangeStart(r) \in Int /\ RangeStart(r)' \in Int
           /\ RangeStart(r) <= RangeStart(r)'
<1>1. now \in Nat /\ now' \in Nat /\ now <= now'
    BY MomentsAreTimes DEF SourcesTypeOK, Later
<1>2. /\ Midnight[now] \in Nat /\ Midnight[now'] \in Nat /\ Midnight[now] <= Midnight[now']
    BY DashboardAssumption DEF SourcesTypeOK, Later
<1>3. Day \in Nat /\ Week \in Nat /\ Month \in Nat
    BY DashboardAssumption
<1> QED
    BY <1>1, <1>2, <1>3 DEF RangeStart

(* The sources mean the same by a range, but for Codex's calendar, for the *)
(* seconds of SQL, and for what Claude does not know.                      *)
LEMMA CodexCutoff ==
    ASSUME SourcesTypeOK, NEW r \in RangeName
    PROVE  /\ CodexRangeCutoff(r) \in Int
           /\ r \notin ByCalendar => CodexRangeCutoff(r) = RangeStart(r)
           /\ r \in ByCalendar => /\ CodexRangeCutoff(r) >= RangeStart(r) - ClockChange
                                  /\ CodexRangeCutoff(r) <= RangeStart(r) + ClockChange
<1>1. now \in Moments /\ now \in Nat /\ Midnight[now] \in Nat
    BY MomentsAreTimes, DashboardAssumption DEF SourcesTypeOK
<1>2. Day \in Nat /\ Week \in Nat /\ Month \in Nat /\ ClockChange \in Nat
    BY DashboardAssumption
<1>3. /\ WeekAgo[now] \in Int /\ MonthAgo[now] \in Int
      /\ WeekAgo[now] >= (now - Week) - ClockChange /\ WeekAgo[now] <= (now - Week) + ClockChange
      /\ MonthAgo[now] >= (now - Month) - ClockChange
      /\ MonthAgo[now] <= (now - Month) + ClockChange
  <2>1. /\ WeekAgo[now] \in (now - Week) - ClockChange .. (now - Week) + ClockChange
        /\ MonthAgo[now] \in (now - Month) - ClockChange .. (now - Month) + ClockChange
    BY <1>1, DashboardAssumption
  <2> QED
    BY <1>1, <1>2, <2>1
<1>4. CASE r = "today"
    BY <1>1, <1>4 DEF CodexRangeCutoff, RangeStart, ByCalendar
<1>5. CASE r \in {"24h", "1d"}
    BY <1>1, <1>2, <1>5 DEF CodexRangeCutoff, RangeStart, ByCalendar
<1>6. CASE r = "7d"
    BY <1>1, <1>2, <1>3, <1>6 DEF CodexRangeCutoff, RangeStart, ByCalendar
<1>7. CASE r = "all"
    BY <1>7 DEF CodexRangeCutoff, RangeStart, ByCalendar
<1>8. CASE r \in {"30d", "month"}
    BY <1>1, <1>2, <1>3, <1>8 DEF CodexRangeCutoff, RangeStart, ByCalendar
<1> QED
    BY <1>4, <1>5, <1>6, <1>7, <1>8 DEF RangeName

LEMMA SQLCutoff ==
    ASSUME SourcesTypeOK, NEW r \in RangeName, NEW t \in Moments, NEW ahead \in Int
    PROVE  /\ AgentTimeCondition(Truncated[t] + ahead, r)
                => t >= RangeStart(r) \/ t + ahead > RangeStart(r) - OneSecond
           /\ t >= RangeStart(r) => AgentTimeCondition(Truncated[t], r)
<1>1. now \in Moments /\ now \in Nat /\ Midnight[now] \in Nat /\ t \in Nat
    BY MomentsAreTimes, DashboardAssumption DEF SourcesTypeOK
<1>2. Day \in Nat /\ Week \in Nat /\ Month \in Nat /\ OneSecond \in Nat
    BY DashboardAssumption, LeaderboardAssumption
<1>3. /\ Truncated[t] \in Nat /\ Truncated[now] \in Nat
      /\ Truncated[t] <= t /\ now < Truncated[now] + OneSecond
    BY <1>1, LeaderboardAssumption
<1>4. /\ t >= Midnight[now] => Truncated[t] >= Midnight[now]
      /\ t >= now - Day => Truncated[t] >= Truncated[now] - Day
      /\ t >= now - Week => Truncated[t] >= Truncated[now] - Week
      /\ t >= now - Month => Truncated[t] >= Truncated[now] - Month
    BY <1>1, LeaderboardAssumption
<1>5. CASE r = "today"
    BY <1>1, <1>2, <1>3, <1>4, <1>5, LeaderboardAssumption DEF AgentTimeCondition, RangeStart
<1>6. CASE r \in {"24h", "1d"}
    BY <1>1, <1>2, <1>3, <1>4, <1>6 DEF AgentTimeCondition, RangeStart
<1>7. CASE r = "7d"
    BY <1>1, <1>2, <1>3, <1>4, <1>7 DEF AgentTimeCondition, RangeStart
<1>8. CASE r \in {"30d", "month"}
    BY <1>1, <1>2, <1>3, <1>4, <1>8 DEF AgentTimeCondition, RangeStart
<1>9. CASE r = "all"
    BY <1>1, <1>9 DEF AgentTimeCondition, RangeStart
<1> QED
    BY <1>5, <1>6, <1>7, <1>8, <1>9 DEF RangeName

LEMMA ClaudeCutoff ==
    ASSUME NEW r \in RangeName
    PROVE  /\ r \notin {"1d", "month"} => ClaudeRangeCutoff(r) = RangeStart(r)
           /\ r \in {"1d", "month"} => ClaudeRangeCutoff(r) = 0
BY DEF RangeName, ClaudeRangeCutoff, RangeStart

(* What is counted was written, and not before the range began, but for    *)
(* what WithinRange excepts.                                               *)
GoogleInRange(x) ==
    /\ \A l \in x.usage \cup x.calls : time[l] > req.since - OneSecond
    /\ \A k \in x.tasks :
        time[k] >= req.since \/ time[k] + Ahead[k] > req.since - OneSecond
CodexInRange(x) ==
    \A l \in x.usage \cup x.calls \cup x.tasks :
        \/ time[l] >= req.since
        \/ req.range \in ByCalendar /\ time[l] >= req.since - ClockChange
ClaudeInRange(x) ==
    req.range \notin {"1d", "month"} => \A l \in x.usage : time[l] >= req.since
InRange(x) ==
    /\ \A l \in All(x) : l \in Line /\ time[l] # 0
    /\ x.provider = "google" => GoogleInRange(x)
    /\ x.provider = "openai" => CodexInRange(x)
    /\ x.provider = "claude" => ClaudeInRange(x)
WithinInv ==
    /\ req.at # "idle" => req.since <= RangeStart(req.range)
    /\ \A x \in req.figures : InRange(x)

LEMMA SinceRange ==
    ASSUME OnceInv, WithinInv, req.at # "idle", NEW l \in Line
    PROVE  /\ time[l] \in Nat /\ req.since \in Int /\ RangeStart(req.range) \in Int
           /\ req.since <= RangeStart(req.range)
           /\ time[l] >= RangeStart(req.range) => time[l] >= req.since
<1>1. time[l] \in Nat /\ req.since \in Int /\ RangeStart(req.range) \in Int
    BY MomentsAreTimes, RangeStartIsInt DEF OnceInv, TypeOK, SourcesTypeOK
<1> QED
    BY <1>1 DEF WithinInv

LEMMA LogInRange ==
    ASSUME OnceInv, WithinInv, req.at # "idle", NEW l \in LogRows(req.range)
    PROVE  InRange(Figure("google", l, {l}, {l}, {}, {Timestamp(l)}))
<1> DEFINE x == Figure("google", l, {l}, {l}, {}, {Timestamp(l)})
<1>1. l \in Line /\ time[l] # 0 /\ time[l] \in Moments
    BY DEF LogRows, Written, OnceInv, SourcesOK, SourcesTypeOK
<1>2. AgentTimeCondition(Truncated[time[l]] + 0, req.range)
  <2>1. Truncated[time[l]] + 0 = Truncated[time[l]]
    BY <1>1, LeaderboardAssumption
  <2> QED
    BY <2>1 DEF LogRows, Timestamp
<1>3. \/ time[l] >= RangeStart(req.range)
      \/ time[l] + 0 > RangeStart(req.range) - OneSecond
    BY <1>1, <1>2, SQLCutoff, RangesAreNamed DEF OnceInv, SourcesOK
<1>4. time[l] > req.since - OneSecond
    BY <1>1, <1>3, SinceRange, LeaderboardAssumption
<1>5. x.provider = "google" /\ x.usage = {l} /\ x.calls = {l} /\ x.tasks = {}
    BY DEF Figure
<1> HIDE DEF x
<1>6. InRange(x)
    BY <1>1, <1>4, <1>5 DEF InRange, GoogleInRange, All
<1> QED
    BY <1>6 DEF x

LEMMA TaskInRange ==
    ASSUME OnceInv, WithinInv, req.at # "idle", NEW k \in TaskRows(req.range)
    PROVE  InRange(Figure("google", k, {}, {}, {k}, {StartedAt(k)}))
<1> DEFINE x == Figure("google", k, {}, {}, {k}, {StartedAt(k)})
<1>1. k \in Line /\ time[k] # 0 /\ time[k] \in Moments /\ Ahead[k] \in Int
    BY LeaderboardAssumption DEF TaskRows, Written, OnceInv, SourcesOK, SourcesTypeOK
<1>2. AgentTimeCondition(Truncated[time[k]] + Ahead[k], req.range)
    BY DEF TaskRows, StartedAt
<1>3. \/ time[k] >= RangeStart(req.range)
      \/ time[k] + Ahead[k] > RangeStart(req.range) - OneSecond
    BY <1>1, <1>2, SQLCutoff, RangesAreNamed DEF OnceInv, SourcesOK
<1>4. time[k] >= req.since \/ time[k] + Ahead[k] > req.since - OneSecond
    BY <1>1, <1>3, SinceRange, LeaderboardAssumption
<1>5. x.provider = "google" /\ x.usage = {} /\ x.calls = {} /\ x.tasks = {k}
    BY DEF Figure
<1> HIDE DEF x
<1>6. InRange(x)
    BY <1>1, <1>4, <1>5 DEF InRange, GoogleInRange, All
<1> QED
    BY <1>6 DEF x

LEMMA CodexRowInRange ==
    ASSUME OnceInv, WithinInv, req.at # "idle", NEW f \in CodexFile
    PROVE  InRange(FromCodex(CodexRow(f, CodexRangeCutoff(req.range))))
<1> DEFINE cutoff == CodexRangeCutoff(req.range)
           x == FromCodex(CodexRow(f, cutoff))
<1>1. /\ cutoff \in Int
      /\ req.range \notin ByCalendar => cutoff = RangeStart(req.range)
      /\ req.range \in ByCalendar => cutoff >= RangeStart(req.range) - ClockChange
    BY CodexCutoff, RangesAreNamed DEF OnceInv, SourcesOK
<1>2. x.provider = "openai" /\ \A l \in All(x) : l \in codex[f].lines /\ time[l] >= cutoff
    BY DEF All, FromCodex, Figure, CodexRow, Usage, Tools, Since
<1> HIDE DEF x, cutoff
<1>3. \A l \in All(x) : l \in Line /\ time[l] # 0
    BY <1>2 DEF OnceInv, SourcesOK, SourcesTypeOK, Line
<1>4. ASSUME NEW l \in All(x)
      PROVE  \/ time[l] >= req.since
             \/ req.range \in ByCalendar /\ time[l] >= req.since - ClockChange
  <2>1. /\ time[l] \in Nat /\ req.since \in Int /\ RangeStart(req.range) \in Int
        /\ req.since <= RangeStart(req.range) /\ time[l] >= cutoff
    BY <1>2, <1>3, SinceRange
  <2>2. ClockChange \in Nat
    BY DashboardAssumption
  <2> QED
    BY <1>1, <2>1, <2>2
<1>5. InRange(x)
    BY <1>2, <1>3, <1>4 DEF InRange, CodexInRange, All
<1> QED
    BY <1>5 DEF x, cutoff

LEMMA ReadsWithin ==
    ASSUME OnceInv, WithinInv, NEW at, NEW figures, NEW there, Reads(at, figures, there),
           req.at # "idle", \A x \in figures : InRange(x)
    PROVE  WithinInv'
<1>1. /\ req'.figures = req.figures \cup figures
      /\ req'.range = req.range /\ req'.since = req.since
    BY DEF Reads, OnceInv, TypeOK
<1>2. now' = now /\ time' = time
    BY DEF Reads, sources
<1>3. \A r : RangeStart(r)' = RangeStart(r)
    BY <1>2 DEF RangeStart
<1>4. \A x : InRange(x) => InRange(x)'
    BY <1>1, <1>2 DEF InRange, GoogleInRange, CodexInRange, ClaudeInRange, All
<1> QED
    BY <1>1, <1>3, <1>4 DEF WithinInv

LEMMA WorldWithin == OnceInv /\ WithinInv /\ World /\ UNCHANGED req => WithinInv'
<1> SUFFICES ASSUME OnceInv, WithinInv, World, UNCHANGED req PROVE WithinInv'
    OBVIOUS
<1>1. Later /\ SourcesTypeOK
    BY WorldStep DEF OnceInv, SourcesOK
<1>2. PICK r : r = req.range /\ r = req'.range
    OBVIOUS
<1>3. /\ RangeStart(r) \in Int /\ RangeStart(r)' \in Int /\ RangeStart(r) <= RangeStart(r)'
    BY <1>1, RangeStartGrows
<1>4. req.since \in Int /\ req' = req
    BY DEF OnceInv, TypeOK
<1>5. (req.at # "idle" => req.since <= RangeStart(req.range))'
  <2>1. req.at # "idle" => req.since <= RangeStart(r)
    BY <1>2 DEF WithinInv
  <2>2. req'.at # "idle" => req'.since <= RangeStart(r)'
    BY <1>3, <1>4, <2>1
  <2> QED
    BY <1>2, <2>2 DEF RangeStart
<1>6. \A x \in req.figures : InRange(x)'
  <2> SUFFICES ASSUME NEW x \in req.figures PROVE InRange(x)'
    OBVIOUS
  <2>1. InRange(x)
    BY DEF WithinInv
  <2>2. \A l \in All(x) : l \in Line /\ time[l] # 0 /\ time'[l] = time[l]
    BY <1>1, <2>1 DEF InRange, Later
  <2> QED
    BY <1>4, <2>1, <2>2 DEF InRange, GoogleInRange, CodexInRange, ClaudeInRange, All
<1>7. (\A x \in req.figures : InRange(x))'
    BY <1>4, <1>6
<1> QED
    BY <1>5, <1>7 DEF WithinInv

LEMMA WithinStep == OnceInv /\ WithinInv /\ [Next]_vars => WithinInv'
<1> SUFFICES ASSUME OnceInv, WithinInv, [Next]_vars PROVE WithinInv'
    OBVIOUS
<1>1. CASE World /\ UNCHANGED req
    BY <1>1, WorldWithin
<1>2. ASSUME NEW r \in Ranges, Ask(r) PROVE WithinInv'
  <2>1. req'.figures = {} /\ req'.since = RangeStart(r) /\ req'.range = r
    BY <1>2 DEF Ask, NoRequest
  <2>2. RangeStart(r)' = RangeStart(r) /\ RangeStart(r) \in Int
    BY <1>2, RangeStartIsInt DEF Ask, sources, RangeStart, OnceInv, SourcesOK
  <2> QED
    BY <2>1, <2>2 DEF WithinInv
<1>3. CASE ReadLog
  <2> DEFINE figures == {Figure("google", l, {l}, {l}, {}, {Timestamp(l)}) :
                            l \in LogRows(req.range)}
  <2>1. Reads("fleet", figures, Log \cap Written) /\ req.at # "idle"
    BY <1>3 DEF ReadLog
  <2>2. \A x \in figures : InRange(x)
    BY <2>1, LogInRange
  <2> HIDE DEF figures
  <2> QED
    BY <2>1, <2>2, ReadsWithin
<1>4. CASE ReadFleet
  <2> DEFINE figures == {Figure("google", k, {}, {}, {k}, {StartedAt(k)}) :
                            k \in TaskRows(req.range)}
  <2>1. Reads("codex", figures, {}) /\ req.at # "idle"
    BY <1>4 DEF ReadFleet
  <2>2. \A x \in figures : InRange(x)
    BY <2>1, TaskInRange
  <2> HIDE DEF figures
  <2> QED
    BY <2>1, <2>2, ReadsWithin
<1>5. CASE QueryFails \/ Reply
    BY <1>5 DEF QueryFails, Reply, NoRequest, WithinInv
<1>6. CASE ReadCodex
  <2> DEFINE figures == {FromCodex(row) : row \in CodexSessions(req.range)}
  <2>1. Reads("claude", figures, Usage(CodexThere)) /\ req.at # "idle"
    BY <1>6 DEF ReadCodex
  <2>2. \A x \in figures : InRange(x)
    BY <2>1, CodexRowInRange DEF CodexSessions
  <2> HIDE DEF figures
  <2> QED
    BY <2>1, <2>2, ReadsWithin
<1>7. CASE ReadClaude
  <2>1. req.at # "idle" /\ req.range \in RangeName
    BY <1>7, RangesAreNamed DEF OnceInv, ReadClaude
  <2>2. \A f \in ClaudeFile : \A l \in claude[f] : l \in Line /\ time[l] # 0
    BY DEF OnceInv, SourcesOK, SourcesTypeOK, Line
  <2>3. \A f \in ClaudeFile : InRange(FromClaude(ClaudeRow(f, ClaudeRangeCutoff(req.range))))
    <3> SUFFICES ASSUME NEW f \in ClaudeFile
                 PROVE  InRange(FromClaude(ClaudeRow(f, ClaudeRangeCutoff(req.range))))
        OBVIOUS
    <3> DEFINE x == FromClaude(ClaudeRow(f, ClaudeRangeCutoff(req.range)))
    <3>1. x.provider = "claude" /\ All(x) \subseteq claude[f]
        BY DEF All, FromClaude, Figure, ClaudeRow, Usage, Tools, Turns, Since
    <3>2. \A l \in x.usage : l \in claude[f] /\ time[l] >= ClaudeRangeCutoff(req.range)
        BY DEF FromClaude, Figure, ClaudeRow, Usage, Since
    <3> HIDE DEF x
    <3>3. ClaudeInRange(x)
        BY <2>1, <2>2, <3>2, ClaudeCutoff, SinceRange DEF ClaudeInRange
    <3>4. InRange(x)
        BY <2>2, <3>1, <3>3 DEF InRange
    <3> QED
        BY <3>4 DEF x
  <2>4. PICK rows \in ClaudeSessions(req.range) :
            Reads("done", {FromClaude(row) : row \in rows},
                  UNION {Usage(claude[f]) : f \in ClaudeFile})
    BY <1>7 DEF ReadClaude
  <2>5. \A row \in rows : InRange(FromClaude(row))
    BY <2>3 DEF ClaudeSessions, FirstRows, AllClaudeSessions
  <2> QED
    BY <2>1, <2>4, <2>5, ReadsWithin
<1>8. CASE UNCHANGED vars
  <2>1. req' = req /\ time' = time /\ now' = now
    BY <1>8 DEF vars, sources
  <2> QED
    BY <2>1 DEF WithinInv, InRange, GoogleInRange, CodexInRange, ClaudeInRange, All, RangeStart
<1> QED
    BY <1>1, <1>2, <1>3, <1>4, <1>5, <1>6, <1>7, <1>8 DEF Next, Request

(* Nothing that was written before the range began, as the request was     *)
(* asked, is in its answer, but for the seconds of SQL, the zone of a task *)
(* that was not dated in UTC, the calendar of Codex and what Claude does   *)
(* not know or cut.                                                        *)
THEOREM NothingFromBefore == Spec => []WithinRange
<1>1. Init => WithinInv
    BY DEF Init, NoRequest, WithinInv
<1>2. OnceInv /\ WithinInv => WithinRange
    BY DEF WithinInv, WithinRange, InRange, GoogleInRange, CodexInRange, ClaudeInRange
<1> QED
    BY <1>1, <1>2, WithinStep, OnceInvariant, PTL DEF Spec

----------------------------------------------------------------------------
(* Nothing is left out.                                                    *)

(* Of the files of a session that were written last the first is chosen.   *)
LEMMA LatestChosen ==
    ASSUME SourcesOK, NEW s, \E f \in CodexFile : Latest(f) /\ SessionOf[f] = s
    PROVE  \E f \in CodexFile : Latest(f) /\ SessionOf[f] = s /\ Chosen(f)
<1> DEFINE T == {f \in CodexFile : Latest(f) /\ SessionOf[f] = s}
<1>1. T \subseteq Nat /\ T # {}
    BY DashboardAssumption
<1>2. PICK f \in T : \A g \in T : ~(<<g, f>> \in OpToRel(<, Nat))
  <2> HIDE DEF T
  <2> QED
    BY <1>1, NatLessThanWellFounded, WFMin
<1>3. \A g \in T : f <= g
  <2>1. \A g \in Nat, h \in Nat : g < h => <<g, h>> \in OpToRel(<, Nat)
    BY Zenon DEF OpToRel
  <2>2. \A g \in T : ~(g < f)
    BY <1>1, <1>2, <2>1
  <2> QED
    BY <1>1, <2>2
<1>4. \A g \in CodexFile : codex[g].mtime \in Nat
    BY MomentsAreTimes DEF SourcesOK, SourcesTypeOK
<1>5. ASSUME NEW g \in CodexFile, Known(g), SessionOf[g] = SessionOf[f]
      PROVE  ~Precedes(g, f)
  <2>1. codex[g].mtime <= codex[f].mtime
    BY <1>5 DEF Latest
  <2>2. codex[g].mtime = codex[f].mtime => g \in T
    BY <1>5 DEF Latest
  <2> QED
    BY <1>1, <1>3, <1>4, <2>1, <2>2 DEF Precedes
<1> QED
    BY <1>5 DEF Latest, Chosen

(* What the last files of a session have is in its row.                    *)
LEMMA CodexComplete ==
    ASSUME SourcesOK, NEW r, NEW l \in Usage(CodexThere), time[l] >= CodexRangeCutoff(r)
    PROVE  \E row \in CodexSessions(r) : l \in row.usage
<1>1. /\ l \in CodexLine /\ Kind[l] = "usage"
      /\ \E f \in CodexFile : Latest(f) /\ SessionOf[f] = SessionOfLine[l]
      /\ \A f \in CodexFile :
            Latest(f) /\ SessionOf[f] = SessionOfLine[l] => l \in codex[f].lines
    BY DEF Usage, CodexThere
<1>2. PICK f \in CodexFile : Latest(f) /\ SessionOf[f] = SessionOfLine[l] /\ Chosen(f)
    BY <1>1, LatestChosen
<1>3. l \in Since(codex[f].lines, CodexRangeCutoff(r))
    BY <1>1, <1>2 DEF Since
<1>4. HasRow(f, CodexRangeCutoff(r)) /\ l \in CodexRow(f, CodexRangeCutoff(r)).usage
    BY <1>1, <1>3 DEF HasRow, CodexRow, Usage
<1> QED
    BY <1>2, <1>4 DEF CodexSessions

(* The rows of Claude that are shown, as figures, are as many.             *)
LEMMA AsManyFigures ==
    ASSUME SourcesOK, NEW r, NEW rows \in ClaudeSessions(r)
    PROVE  Cardinality({FromClaude(row) : row \in rows}) = Cardinality(rows)
<1> DEFINE Row(f) == ClaudeRow(f, ClaudeRangeCutoff(r))
           files == [row \in rows |-> row.file]
           figure == [row \in rows |-> FromClaude(row)]
           figures == {FromClaude(row) : row \in rows}
<1>1. \A row \in rows : row.file \in ClaudeFile /\ row = Row(row.file)
    BY DEF ClaudeSessions, FirstRows, AllClaudeSessions, ClaudeRow
<1>2. IsFiniteSet(rows)
  <2>1. files \in Injection(rows, ClaudeFile)
    BY <1>1 DEF Injection, IsInjective
  <2> QED
    BY <2>1, FS_Injection, DashboardAssumption
<1>3. figure \in Surjection(rows, figures)
    BY DEF Surjection
<1>4. figure \in Injection(rows, figures)
  <2>1. \A row \in rows : FromClaude(row).home = row.file
    BY DEF FromClaude, Figure
  <2> QED
    BY <1>1, <2>1 DEF Injection, IsInjective
<1> HIDE DEF figure, figures
<1>5. Cardinality(figures) = Cardinality(rows)
    BY <1>2, <1>3, <1>4, FS_Surjection
<1> QED
    BY <1>5 DEF figures

(* What is left out was written, and until Claude is read it is all from   *)
(* before the range, or from where the clock was changed.                  *)
ClockHides(l) ==
    /\ l \in CodexLine /\ req.range \in ByCalendar
    /\ time[l] < RangeStart(req.range) + ClockChange
Early(l) == time[l] < RangeStart(req.range) \/ ClockHides(l)
HiddenInv ==
    /\ \A l \in req.missed : l \in Line /\ time[l] # 0
    /\ req.at # "done" => \A l \in req.missed : Early(l)
    /\ OnlyLimitsHide

(* A read before the last, that leaves out only what is early.             *)
LEMMA ReadsHidden ==
    ASSUME OnceInv, HiddenInv, NEW at, NEW figures, NEW there, Reads(at, figures, there),
           req.at # "done", at # "done",
           \A l \in there : l \in Line /\ time[l] # 0,
           \A l \in there \ Counted(figures) : Early(l)
    PROVE  HiddenInv'
<1>1. /\ req'.missed = req.missed \cup (there \ Counted(figures))
      /\ req'.at = at /\ req'.range = req.range
    BY DEF Reads, OnceInv, TypeOK
<1>2. now' = now /\ time' = time
    BY DEF Reads, sources
<1>3. (\A l \in req.missed : Early(l))'
  <2>1. \A l \in req'.missed : Early(l)
    BY <1>1 DEF HiddenInv
  <2>2. \A l : Early(l)' <=> Early(l)
    BY <1>1, <1>2 DEF Early, ClockHides, RangeStart
  <2> QED
    BY <2>1, <2>2
<1> QED
    BY <1>1, <1>2, <1>3 DEF HiddenInv, OnlyLimitsHide

LEMMA WorldHidden == OnceInv /\ HiddenInv /\ World /\ UNCHANGED req => HiddenInv'
<1> SUFFICES ASSUME OnceInv, HiddenInv, World, UNCHANGED req PROVE HiddenInv'
    OBVIOUS
<1>1. Later /\ SourcesTypeOK
    BY WorldStep DEF OnceInv, SourcesOK
<1>2. PICK r : r = req.range /\ r = req'.range
    OBVIOUS
<1>3. /\ RangeStart(r) \in Int /\ RangeStart(r)' \in Int /\ RangeStart(r) <= RangeStart(r)'
    BY <1>1, RangeStartGrows
<1>4. \A l \in req.missed : l \in Line /\ time[l] # 0 /\ time'[l] = time[l] /\ time[l] \in Nat
    BY <1>1, MomentsAreTimes DEF HiddenInv, Later, SourcesTypeOK
<1>5. ClockChange \in Nat
    BY DashboardAssumption
<1>6. (req.at # "done" => \A l \in req.missed : Early(l))'
  <2> SUFFICES ASSUME req.at # "done", NEW l \in req.missed PROVE Early(l)'
    OBVIOUS
  <2>1. Early(l)
    BY DEF HiddenInv
  <2>2. time'[l] < RangeStart(r)' \/ (/\ l \in CodexLine /\ r \in ByCalendar
                                     /\ time'[l] < RangeStart(r)' + ClockChange)
    BY <1>2, <1>3, <1>4, <1>5, <2>1 DEF Early, ClockHides
  <2> QED
    BY <1>2, <2>2 DEF Early, ClockHides, RangeStart
<1>7. OnlyLimitsHide'
  <2> DEFINE shown == {x \in req.figures : x.provider = "claude"}
             Clock(l) == /\ l \in CodexLine /\ r \in ByCalendar
                         /\ time[l] < RangeStart(r) + ClockChange
             Limit(l) == /\ l \in ClaudeLine
                         /\ Cardinality(shown) = MaxRows
                         /\ \A x \in shown : \E t \in x.updated : t >= time[l]
  <2>1. req.at = "done" =>
            \A l \in req.missed : time[l] >= RangeStart(r) => Clock(l) \/ Limit(l)
    BY <1>2 DEF HiddenInv, OnlyLimitsHide
  <2>2. \A l \in req.missed : Limit(l) => Limit(l)'
    BY <1>4
  <2>3. \A l \in req.missed : Clock(l) => Clock(l)'
    <3> SUFFICES ASSUME NEW l \in req.missed, Clock(l)
                 PROVE  time'[l] < RangeStart(r)' + ClockChange
      OBVIOUS
    <3> QED
      BY <1>3, <1>4, <1>5
  <2> HIDE DEF Limit, Clock
  <2>4. req.at = "done" =>
            \A l \in req.missed : time'[l] >= RangeStart(r)' => Clock(l)' \/ Limit(l)'
    BY <1>3, <1>4, <2>1, <2>2, <2>3
  <2> QED
    BY <1>2, <2>4 DEF OnlyLimitsHide, Limit, Clock, RangeStart
<1>8. (\A l \in req.missed : l \in Line /\ time[l] # 0)'
    BY <1>4
<1> QED
    BY <1>6, <1>7, <1>8 DEF HiddenInv

LEMMA ReadClaudeHidden == OnceInv /\ HiddenInv /\ ReadClaude => HiddenInv'
<1> SUFFICES ASSUME OnceInv, HiddenInv, ReadClaude PROVE HiddenInv'
    OBVIOUS
<1> DEFINE cutoff == ClaudeRangeCutoff(req.range)
           there == UNION {Usage(claude[f]) : f \in ClaudeFile}
           rows == CHOOSE S \in ClaudeSessions(req.range) :
                        Reads("done", {FromClaude(row) : row \in S}, there)
           figures == {FromClaude(row) : row \in rows}
<1>1. rows \in ClaudeSessions(req.range) /\ Reads("done", figures, there)
    BY DEF ReadClaude
<1>2. rows \in FirstRows(AllClaudeSessions(req.range))
    BY <1>1 DEF ClaudeSessions
<1>3. req.at = "claude" /\ \A x \in req.figures : x.provider # "claude"
    BY DEF ReadClaude, OnceInv, Phases
<1>4. \A l \in there : l \in ClaudeLine /\ l \in Line /\ time[l] # 0 /\ time[l] \in Nat
    BY MomentsAreTimes DEF OnceInv, SourcesOK, SourcesTypeOK, Usage, Line
<1>5. Cardinality(figures) = Cardinality(rows)
    BY <1>1, AsManyFigures DEF OnceInv
<1> HIDE DEF rows
<1>6. \A x \in figures : x.provider = "claude" /\ \E row \in rows : x.updated = row.updated
    BY DEF FromClaude, Figure
<1>7. \A l : (\E row \in rows : l \in row.usage) => l \in Counted(figures)
  <2>1. \A row \in rows : FromClaude(row) \in figures /\ FromClaude(row).usage = row.usage
    BY DEF FromClaude, Figure
  <2> QED
    BY <2>1 DEF Counted
<1> HIDE DEF figures
<1>8. ASSUME NEW l \in there \ Counted(figures), time[l] >= RangeStart(req.range)
      PROVE  /\ Cardinality(rows) = MaxRows
             /\ \A x \in figures : \E t \in x.updated : t >= time[l]
  <2>1. time[l] >= cutoff
    BY <1>4, <1>8, RangesAreNamed, ClaudeCutoff DEF OnceInv
  <2>2. PICK f \in ClaudeFile : l \in Usage(claude[f])
    BY <1>8
  <2> DEFINE row == ClaudeRow(f, cutoff)
  <2>3. l \in row.usage /\ time[l] \in row.updated
    BY <2>1, <2>2 DEF ClaudeRow, Usage, Since
  <2>4. row \in AllClaudeSessions(req.range)
    BY <2>3 DEF AllClaudeSessions
  <2> HIDE DEF row
  <2>5. row \notin rows
    BY <1>7, <1>8, <2>3
  <2>6. Cardinality(rows) = MaxRows /\ \A a \in rows : ~NewerRow(row, a)
    BY <1>2, <2>4, <2>5 DEF FirstRows
  <2>7. \A a \in rows : \E u \in a.updated : ~(time[l] > u)
    BY <2>3, <2>6 DEF NewerRow
  <2>8. \A a \in rows : a.updated \subseteq Nat
    BY <1>2, MomentsAreTimes
       DEF FirstRows, AllClaudeSessions, ClaudeRow, OnceInv, SourcesOK, SourcesTypeOK, Line
  <2>9. \A a \in rows : \E u \in a.updated : u >= time[l]
    BY <1>4, <2>7, <2>8
  <2> QED
    BY <1>6, <2>6, <2>9
<1>9. /\ req'.missed = req.missed \cup (there \ Counted(figures))
      /\ req'.figures = req.figures \cup figures /\ req'.range = req.range /\ req'.at = "done"
    BY <1>1 DEF Reads, OnceInv, TypeOK
<1>10. now' = now /\ time' = time
    BY <1>1 DEF Reads, sources
<1>11. {x \in req'.figures : x.provider = "claude"} = figures
    BY <1>3, <1>6, <1>9
<1>12. \A l \in req'.missed : time[l] >= RangeStart(req.range) =>
            l \in there \ Counted(figures) \/ ClockHides(l)
  <2>1. \A l \in req.missed : time[l] >= RangeStart(req.range) => ClockHides(l)
    BY <1>3, RangeStartIsInt, MomentsAreTimes
       DEF HiddenInv, Early, OnceInv, SourcesOK, SourcesTypeOK
  <2> QED
    BY <1>9, <2>1
<1>13. OnlyLimitsHide'
    BY <1>4, <1>5, <1>8, <1>9, <1>10, <1>11, <1>12 DEF OnlyLimitsHide, ClockHides, RangeStart
<1> QED
    BY <1>4, <1>9, <1>10, <1>13 DEF HiddenInv

LEMMA HiddenStep == OnceInv /\ HiddenInv /\ [Next]_vars => HiddenInv'
<1> SUFFICES ASSUME OnceInv, HiddenInv, [Next]_vars PROVE HiddenInv'
    OBVIOUS
<1>1. CASE World /\ UNCHANGED req
    BY <1>1, WorldHidden
<1>2. ASSUME NEW r \in Ranges, Ask(r) PROVE HiddenInv'
    BY <1>2 DEF Ask, NoRequest, HiddenInv, OnlyLimitsHide
<1>3. CASE ReadLog
  <2> DEFINE Fig(l) == Figure("google", l, {l}, {l}, {}, {Timestamp(l)})
             figures == {Fig(l) : l \in LogRows(req.range)}
             there == Log \cap Written
  <2>1. Reads("fleet", figures, there) /\ req.at # "done"
    BY <1>3 DEF ReadLog
  <2>2. \A l \in there : /\ l \in Line /\ time[l] # 0 /\ time[l] \in Nat
                         /\ time[l] \in Moments
    BY MomentsAreTimes DEF Written, OnceInv, SourcesOK, SourcesTypeOK
  <2>3. \A l \in there : time[l] >= RangeStart(req.range) => l \in LogRows(req.range)
    <3> SUFFICES ASSUME NEW l \in there, time[l] >= RangeStart(req.range)
                 PROVE  l \in LogRows(req.range)
      OBVIOUS
    <3>1. AgentTimeCondition(Truncated[time[l]], req.range)
      BY <2>2, SQLCutoff, RangesAreNamed, 0 \in Int DEF OnceInv, SourcesOK
    <3> QED
      BY <3>1 DEF LogRows, Timestamp
  <2>4. \A l \in LogRows(req.range) : l \in Fig(l).usage /\ Fig(l) \in figures
    BY DEF Figure
  <2> HIDE DEF Fig, figures, there
  <2>5. \A l \in there \ Counted(figures) : Early(l)
    BY <2>2, <2>3, <2>4, RangeStartIsInt DEF Counted, Early, OnceInv, SourcesOK
  <2> QED
    BY <2>1, <2>2, <2>5, ReadsHidden
<1>4. CASE ReadFleet
  <2> DEFINE figures == {Figure("google", k, {}, {}, {k}, {StartedAt(k)}) :
                            k \in TaskRows(req.range)}
  <2>1. Reads("codex", figures, {}) /\ req.at # "done"
    BY <1>4 DEF ReadFleet
  <2> HIDE DEF figures
  <2> QED
    BY <2>1, ReadsHidden
<1>5. CASE QueryFails \/ Reply
    BY <1>5 DEF QueryFails, Reply, NoRequest, HiddenInv, OnlyLimitsHide
<1>6. CASE ReadCodex
  <2> DEFINE figures == {FromCodex(row) : row \in CodexSessions(req.range)}
             there == Usage(CodexThere)
  <2>1. Reads("claude", figures, there) /\ req.at # "done"
    BY <1>6 DEF ReadCodex
  <2>2. \A l \in there : l \in Line /\ time[l] # 0 /\ time[l] \in Nat
    BY MomentsAreTimes
       DEF OnceInv, SourcesOK, SourcesTypeOK, Usage, CodexThere, Line, Latest
  <2> DEFINE cutoff == CodexRangeCutoff(req.range)
  <2>3. /\ cutoff \in Int /\ RangeStart(req.range) \in Int /\ ClockChange \in Nat
        /\ req.range \notin ByCalendar => cutoff = RangeStart(req.range)
        /\ req.range \in ByCalendar => cutoff <= RangeStart(req.range) + ClockChange
    BY CodexCutoff, RangesAreNamed, RangeStartIsInt, DashboardAssumption DEF OnceInv, SourcesOK
  <2>4. \A l \in there : time[l] >= cutoff => \E row \in CodexSessions(req.range) : l \in row.usage
    BY CodexComplete DEF OnceInv
  <2>5. \A row \in CodexSessions(req.range) : FromCodex(row).usage = row.usage
    BY DEF FromCodex, Figure
  <2>6. \A l \in there : time[l] >= cutoff => l \in Counted(figures)
    BY <2>4, <2>5 DEF Counted
  <2>7. \A l \in there : l \in CodexLine
    BY DEF Usage, CodexThere
  <2> HIDE DEF figures, there, cutoff
  <2>8. \A l \in there \ Counted(figures) : Early(l)
    BY <2>2, <2>3, <2>6, <2>7 DEF Early, ClockHides
  <2> QED
    BY <2>1, <2>2, <2>8, ReadsHidden
<1>7. CASE ReadClaude
    BY <1>7, ReadClaudeHidden
<1>8. CASE UNCHANGED vars
    BY <1>8 DEF vars, sources, HiddenInv, Early, ClockHides, OnlyLimitsHide, RangeStart
<1> QED
    BY <1>1, <1>2, <1>3, <1>4, <1>5, <1>6, <1>7, <1>8 DEF Next, Request

(* An answer has all the usage of its range that the sources had as they   *)
(* were read, but for what a change of the clock takes from Codex's weeks  *)
(* and months, and what the limit on Claude's rows hides.                  *)
THEOREM NothingLeftOut == Spec => []OnlyLimitsHide
<1>1. Init => HiddenInv
    BY DEF Init, NoRequest, HiddenInv, OnlyLimitsHide
<1>2. HiddenInv => OnlyLimitsHide
    BY DEF HiddenInv
<1> QED
    BY <1>1, <1>2, HiddenStep, OnceInvariant, PTL DEF Spec

(* The points of a chart are in the order of time, for any calendar.       *)
THEOREM ChartsInOrder == Spec => []SeriesInOrder
<1>1. OnceInv => SeriesInOrder
  <2> SUFFICES ASSUME OnceInv PROVE SeriesInOrder
    OBVIOUS
  <2> DEFINE Shown == {l \in Line : time[l] # 0}
  <2>1. ASSUME NEW r, NEW l \in Shown, NEW m \in Shown, time[l] < time[m]
        PROVE  /\ ~KeyLess(CodexBucketKey(time[m], r), CodexBucketKey(time[l], r))
               /\ r \notin {"today", "24h"} =>
                    ~KeyLess(ClaudeBucketKey(time[m], r), ClaudeBucketKey(time[l], r))
    <3>1. time[l] \in Moments /\ time[m] \in Moments
      BY DEF OnceInv, SourcesOK, SourcesTypeOK
    <3>2. /\ Midnight[time[l]] \in Nat /\ Midnight[time[m]] \in Nat
          /\ UTCMidnight[time[l]] \in Nat /\ UTCMidnight[time[m]] \in Nat
          /\ time[l] \in Nat /\ time[m] \in Nat
      BY <3>1, DashboardAssumption
    <3>3. /\ Midnight[time[l]] <= Midnight[time[m]]
          /\ UTCMidnight[time[l]] <= UTCMidnight[time[m]]
      BY <2>1, <3>1, <3>2, DashboardAssumption
    <3> QED
      BY <2>1, <3>2, <3>3 DEF KeyLess, CodexBucketKey, ClaudeBucketKey
  <2>2. \A f \in CodexFile : codex[f].lines \subseteq Shown
    BY DEF OnceInv, SourcesOK, SourcesTypeOK, Line
  <2>3. \A f \in ClaudeFile : claude[f] \subseteq Shown
    BY DEF OnceInv, SourcesOK, SourcesTypeOK, Line
  <2>4. \A r : UNION {row.usage : row \in CodexSessions(r)} \subseteq Shown
    <3>1. \A f, cutoff : CodexRow(f, cutoff).usage \subseteq codex[f].lines
      BY DEF CodexRow, Usage, Since
    <3>2. \A r : \A row \in CodexSessions(r) : \E f \in CodexFile : row.usage \subseteq codex[f].lines
      BY <3>1 DEF CodexSessions
    <3> HIDE DEF Shown
    <3> QED
      BY <2>2, <3>2
  <2>5. \A r : UNION {Usage(Since(claude[f], ClaudeRangeCutoff(r))) : f \in ClaudeFile} \subseteq Shown
    BY <2>3 DEF Usage, Since
  <2> HIDE DEF Shown
  <2>6. ASSUME NEW r \in Ranges
        PROVE  InOrder(UNION {row.usage : row \in CodexSessions(r)},
                       LAMBDA t : CodexBucketKey(t, r))
    <3> DEFINE S == UNION {row.usage : row \in CodexSessions(r)}
    <3>1. S \subseteq Shown
      BY <2>4
    <3> HIDE DEF S
    <3>2. \A l \in S : \A m \in S :
            time[l] < time[m] => ~KeyLess(CodexBucketKey(time[m], r), CodexBucketKey(time[l], r))
      BY <2>1, <3>1
    <3> QED
      BY <3>2 DEF InOrder, S
  <2>7. ASSUME NEW r \in Ranges, r \notin {"today", "24h"}
        PROVE  InOrder(UNION {Usage(Since(claude[f], ClaudeRangeCutoff(r))) : f \in ClaudeFile},
                       LAMBDA t : ClaudeBucketKey(t, r))
    <3> DEFINE S == UNION {Usage(Since(claude[f], ClaudeRangeCutoff(r))) : f \in ClaudeFile}
    <3>1. S \subseteq Shown
      BY <2>5
    <3> HIDE DEF S
    <3>2. \A l \in S : \A m \in S :
            time[l] < time[m] => ~KeyLess(ClaudeBucketKey(time[m], r), ClaudeBucketKey(time[l], r))
      BY <2>1, <2>7, <3>1
    <3> QED
      BY <3>2 DEF InOrder, S
  <2> QED
    BY <2>6, <2>7, Zenon DEF SeriesInOrder
<1> QED
    BY <1>1, OnceInvariant, PTL

----------------------------------------------------------------------------
(* A strict total order of S, and what is before x by it.                  *)
StrictOrder(S, r) ==
    /\ \A x \in S : <<x, x>> \notin r
    /\ \A x, y, z \in S : <<x, y>> \in r /\ <<y, z>> \in r => <<x, z>> \in r
    /\ \A x, y \in S : x = y \/ <<x, y>> \in r \/ <<y, x>> \in r
Before(S, r, x) == {y \in S : <<y, x>> \in r}

(* Ranks by a strict total order of a finite set are 1, 2, ..., and one    *)
(* element has none before it.                                             *)
LEMMA OrderRanks ==
    ASSUME NEW S, IsFiniteSet(S), NEW r, StrictOrder(S, r)
    PROVE  /\ \A x \in S : Cardinality(Before(S, r, x)) \in Nat
           /\ {1 + Cardinality(Before(S, r, x)) : x \in S} = 1 .. Cardinality(S)
           /\ S # {} => \E x \in S : Before(S, r, x) = {}
<1> DEFINE rank == [x \in S |-> 1 + Cardinality(Before(S, r, x))]
           n == Cardinality(S)
<1>1. n \in Nat
  BY FS_CardinalityType
<1>2. ASSUME NEW x \in S
      PROVE  /\ IsFiniteSet(Before(S, r, x)) /\ Cardinality(Before(S, r, x)) \in Nat
             /\ 1 + Cardinality(Before(S, r, x)) \in 1 .. n
  <2>1. Before(S, r, x) \subseteq S \ {x}
    BY DEF Before, StrictOrder
  <2>2. IsFiniteSet(S \ {x}) /\ Cardinality(S \ {x}) = n - 1
    BY FS_RemoveElement
  <2>3. IsFiniteSet(Before(S, r, x)) /\ Cardinality(Before(S, r, x)) <= n - 1
    BY <2>1, <2>2, FS_Subset
  <2>4. Cardinality(Before(S, r, x)) \in Nat
    BY <2>3, FS_CardinalityType
  <2> QED BY <1>1, <2>3, <2>4
<1>3. ASSUME NEW x \in S, NEW y \in S, <<x, y>> \in r
      PROVE  Cardinality(Before(S, r, x)) # Cardinality(Before(S, r, y))
  <2>1. Before(S, r, x) \subseteq Before(S, r, y)
    BY <1>3 DEF Before, StrictOrder
  <2>2. x \in Before(S, r, y) /\ x \notin Before(S, r, x)
    BY <1>3 DEF Before, StrictOrder
  <2> QED BY <1>2, <2>1, <2>2, FS_Subset
<1>4. rank \in Injection(S, 1 .. n)
  <2>1. rank \in [S -> 1 .. n]
    BY <1>2
  <2>2. ASSUME NEW x \in S, NEW y \in S, rank[x] = rank[y] PROVE x = y
    <3>1. Cardinality(Before(S, r, x)) = Cardinality(Before(S, r, y))
      BY <1>2, <2>2
    <3> QED BY <1>3, <3>1 DEF StrictOrder
  <2> HIDE DEF rank
  <2> QED BY <2>1, <2>2 DEF Injection, IsInjective
<1>5. rank \in Surjection(S, 1 .. n)
  <2>1. IsFiniteSet(1 .. n) /\ Cardinality(1 .. n) = n
    BY <1>1, FS_Interval
  <2> HIDE DEF rank
  <2> QED BY <1>4, <2>1, FS_Injection
<1>6. {rank[x] : x \in S} = 1 .. n
  <2> HIDE DEF rank
  <2> QED BY <1>5 DEF Surjection
<1>7. S # {} => \E x \in S : Before(S, r, x) = {}
  <2> SUFFICES ASSUME S # {} PROVE \E x \in S : Before(S, r, x) = {}
    OBVIOUS
  <2>1. 1 \in 1 .. n
    BY <1>1, FS_EmptySet
  <2>2. PICK x \in S : rank[x] = 1
    <3> HIDE DEF rank
    <3> QED BY <1>6, <2>1
  <2>3. Cardinality(Before(S, r, x)) = 0
    BY <1>2, <2>2
  <2> QED BY <1>2, <2>3, FS_EmptySet
<1> QED BY <1>2, <1>6, <1>7

(* A part of a whole is at most 100 percent of it, rounded down.           *)
LEMMA Percent ==
    ASSUME NEW a \in Nat, NEW b \in Nat, b > 0, a <= b
    PROVE  (a * 100) \div b <= 100
<1> DEFINE q == (a * 100) \div b
<1>1. q \in Int /\ b * q <= a * 100
  OBVIOUS
<1> HIDE DEF q
<1>3. ASSUME q > 100 PROVE FALSE
  <2>1. PICK d \in Nat : q = 101 + d
    BY <1>1, <1>3
  <2>2. b * q = b * 101 + b * d
    BY <2>1
  <2>3. b * d \in Nat
    BY <2>1
  <2> QED BY <1>1, <2>2, <2>3
<1> QED BY <1>1, <1>3 DEF q

ItemType == [project : Nat, tokens : Nat, cost : Nat, activity : Nat]
ItemsOK(items) ==
    /\ IsFiniteSet(items) /\ items \subseteq ItemType
    /\ \A x, y \in items : x.project = y.project => x = y

(* The comparison of the code is a strict total order of the items.        *)
LEMMA BeatsOrders ==
    ASSUME NEW items, ItemsOK(items), NEW sort \in SortBy
    PROVE  /\ \A x \in items : /\ x[sort] \in Nat /\ x.tokens \in Nat
                               /\ Second(x, sort) \in Nat /\ x.project \in Nat
           /\ \A x \in items : ~Beats(x, x, sort)
           /\ \A x, y, z \in items : Beats(x, y, sort) /\ Beats(y, z, sort) => Beats(x, z, sort)
           /\ \A x, y \in items : x = y \/ Beats(x, y, sort) \/ Beats(y, x, sort)
<1>1. \A x \in items : /\ x[sort] \in Nat /\ x.tokens \in Nat
                       /\ Second(x, sort) \in Nat /\ x.project \in Nat
  BY DEF ItemsOK, ItemType, SortBy, Second
<1> QED BY <1>1 DEF ItemsOK, Beats

(* The ranks of the items are 1, 2, ... without a gap or a tie, and no     *)
(* item beats the first.                                                   *)
LEMMA RanksAreRight ==
    ASSUME NEW items, ItemsOK(items), NEW sort \in SortBy
    PROVE  /\ {Rank(x, items, sort) : x \in items} = 1 .. Cardinality(items)
           /\ \A x \in items : Rank(x, items, sort) = 1 <=>
                                \A y \in items : ~Beats(y, x, sort)
<1> DEFINE r == {p \in items \X items : Beats(p[1], p[2], sort)}
<1>1. \A x, y \in items : <<x, y>> \in r <=> Beats(x, y, sort)
  OBVIOUS
<1> HIDE DEF r
<1>2. StrictOrder(items, r)
  BY <1>1, BeatsOrders DEF StrictOrder
<1>3. ASSUME NEW x \in items
      PROVE  Before(items, r, x) = {y \in items : Beats(y, x, sort)}
  BY <1>1 DEF Before
<1>4. \A x \in items : Rank(x, items, sort) = 1 + Cardinality(Before(items, r, x))
  BY <1>3 DEF Rank
<1>5. {Rank(x, items, sort) : x \in items} = 1 .. Cardinality(items)
  BY <1>2, <1>4, OrderRanks DEF ItemsOK
<1>6. ASSUME NEW x \in items
      PROVE  Rank(x, items, sort) = 1 <=> \A y \in items : ~Beats(y, x, sort)
  <2>1. IsFiniteSet(Before(items, r, x)) /\ Cardinality(Before(items, r, x)) \in Nat
    BY <1>3, FS_Subset, FS_CardinalityType DEF ItemsOK
  <2>2. Rank(x, items, sort) = 1 <=> Before(items, r, x) = {}
    BY <1>4, <2>1, FS_EmptySet
  <2> QED BY <1>3, <2>2
<1> QED BY <1>5, <1>6

(* No item has more than the first of what the ranking sorts by.           *)
LEMMA PercentRight ==
    ASSUME NEW items, ItemsOK(items), NEW sort \in SortBy, NEW x \in items
    PROVE  PercentOfTop(x, items, sort) <= 100
<1> DEFINE top == CHOOSE y \in items : Rank(y, items, sort) = 1
<1>1. \E y \in items : Rank(y, items, sort) = 1
  <2>1. 1 \in 1 .. Cardinality(items)
    BY FS_CardinalityType, FS_EmptySet DEF ItemsOK
  <2> QED BY <2>1, RanksAreRight
<1>2. top \in items /\ Rank(top, items, sort) = 1
  BY <1>1
<1> HIDE DEF top
<1>3. ~Beats(x, top, sort)
  BY <1>2, RanksAreRight
<1>4. x[sort] \in Nat /\ top[sort] \in Nat /\ x[sort] <= top[sort]
  BY <1>2, <1>3, BeatsOrders DEF Beats
<1> QED BY <1>4, Percent DEF PercentOfTop, top

(* Of the items with the most tokens one is before the others.             *)
LEMMA TopConsumerRight ==
    ASSUME NEW items, ItemsOK(items), NEW sort \in SortBy
    PROVE  Cardinality(TopConsumer(items, sort)) = IF \A x \in items : x.tokens = 0 THEN 0 ELSE 1
<1> DEFINE More(x, y) == x.tokens > y.tokens \/ (x.tokens = y.tokens /\ Beats(x, y, sort))
           r == {p \in items \X items : More(p[1], p[2])}
<1>1. \A x, y \in items : <<x, y>> \in r <=> More(x, y)
  OBVIOUS
<1> HIDE DEF r
<1>2. StrictOrder(items, r)
  BY <1>1, BeatsOrders DEF StrictOrder
<1>3. ASSUME NEW x \in items
      PROVE  x \in TopConsumer(items, sort) <=> x.tokens > 0 /\ Before(items, r, x) = {}
  <2>1. Before(items, r, x) = {} <=> \A y \in items : ~More(y, x)
    BY <1>1 DEF Before
  <2>2. ASSUME NEW y \in items \ {x}
        PROVE  (IF Beats(y, x, sort) THEN x.tokens > y.tokens ELSE x.tokens >= y.tokens)
                <=> ~More(y, x)
    BY BeatsOrders
  <2>3. ~More(x, x)
    BY BeatsOrders
  <2> HIDE DEF More
  <2> QED BY <2>1, <2>2, <2>3 DEF TopConsumer
<1>4. \A x, y \in items : Before(items, r, x) = {} /\ Before(items, r, y) = {} => x = y
  BY <1>2 DEF StrictOrder, Before
<1>5. TopConsumer(items, sort) \subseteq items
  BY DEF TopConsumer
<1>6. CASE \A x \in items : x.tokens = 0
  <2>1. TopConsumer(items, sort) = {}
    BY <1>6 DEF TopConsumer
  <2> QED BY <1>6, <2>1, FS_EmptySet
<1>7. CASE ~(\A x \in items : x.tokens = 0)
  <2>1. PICK y \in items : y.tokens # 0
    BY <1>7
  <2>2. PICK x \in items : Before(items, r, x) = {}
    BY <1>2, <2>1, OrderRanks DEF ItemsOK
  <2>3. ~More(y, x)
    BY <1>1, <2>2 DEF Before
  <2>4. x.tokens > 0
    BY <2>1, <2>3, BeatsOrders
  <2>5. TopConsumer(items, sort) = {x}
    BY <1>3, <1>4, <1>5, <2>2, <2>4
  <2> QED BY <1>7, <2>5, FS_Singleton
<1> QED BY <1>6, <1>7

(* What RankedRight says, of any finite set of items with a project each.  *)
LEMMA AnswerRight ==
    ASSUME NEW items, ItemsOK(items), NEW sort \in SortBy
    PROVE  /\ {Rank(x, items, sort) : x \in items} = 1 .. Cardinality(items)
           /\ \A x \in items : PercentOfTop(x, items, sort) <= 100
           /\ Cardinality(TopConsumer(items, sort)) =
                    IF \A x \in items : x.tokens = 0 THEN 0 ELSE 1
           /\ \A x \in TopConsumer(items, "tokens") : Rank(x, items, "tokens") = 1
<1>1. \A x \in items : PercentOfTop(x, items, sort) <= 100
  BY PercentRight
<1>2. ASSUME NEW x \in TopConsumer(items, "tokens") PROVE Rank(x, items, "tokens") = 1
  <2>1. "tokens" \in SortBy /\ x \in items
    BY DEF SortBy, TopConsumer
  <2>2. ASSUME NEW y \in items, Beats(y, x, "tokens") PROVE FALSE
    <3>1. y.tokens \in Nat /\ x.tokens \in Nat /\ y # x
      BY <2>1, <2>2, BeatsOrders
    <3>2. x.tokens > y.tokens
      BY <2>2, <3>1 DEF TopConsumer
    <3> QED BY <2>2, <3>1, <3>2 DEF Beats
  <2> QED BY <2>1, <2>2, RanksAreRight
<1> QED BY <1>1, <1>2, RanksAreRight, TopConsumerRight

----------------------------------------------------------------------------
(* An answer is finite: only finitely many lines were written, and each    *)
(* figure is of a home, or of a Codex session, of its own.                 *)
FiniteInv ==
    /\ IsFiniteSet(Written)
    /\ IsFiniteSet(req.figures)
    /\ \A x \in req.figures : IsFiniteSet(x.usage) /\ IsFiniteSet(x.calls) /\ IsFiniteSet(x.tasks)

(* A step of the sources writes at most one line.                          *)
LEMMA WrittenFinite ==
    ASSUME SourcesOK, World, IsFiniteSet(Written)
    PROVE  IsFiniteSet(Written')
<1>1. CASE time' = time
  BY <1>1 DEF Written
<1>2. ASSUME NEW l \in Line, time' = [time EXCEPT ![l] = now] PROVE IsFiniteSet(Written')
  <2>1. Written' \subseteq Written \cup {l}
    BY <1>2 DEF Written, SourcesOK, SourcesTypeOK
  <2>2. IsFiniteSet(Written \cup {l})
    BY FS_AddElement
  <2> QED BY <2>1, <2>2, FS_Subset
<1> QED BY <1>1, <1>2 DEF World, Tick, WriteCodex, WriteOther, Copy, PublishCodex, PublishClaude, Line

(* What is made from the elements of a finite set, one of each, is finite. *)
LEMMA ImageFinite ==
    ASSUME NEW H, IsFiniteSet(H), NEW f, NEW F, \A x \in F : \E h \in H : x = f[h]
    PROVE  IsFiniteSet(F)
<1> DEFINE g == [h \in H |-> f[h]]
           T == {f[h] : h \in H}
<1>1. g \in Surjection(H, T)
  BY DEF Surjection
<1>2. IsFiniteSet(T)
  <2> HIDE DEF g, T
  <2> QED BY <1>1, FS_Surjection
<1>3. F \subseteq T
  OBVIOUS
<1> HIDE DEF T
<1> QED BY <1>2, <1>3, FS_Subset

(* A read of finitely many finite figures leaves the answer finite.        *)
LEMMA ReadsFinite ==
    ASSUME OnceInv, FiniteInv, NEW at, NEW figures, NEW there, Reads(at, figures, there),
           IsFiniteSet(figures),
           \A x \in figures : IsFiniteSet(x.usage) /\ IsFiniteSet(x.calls) /\ IsFiniteSet(x.tasks)
    PROVE  FiniteInv'
<1>1. req'.figures = req.figures \cup figures /\ Written' = Written
  BY DEF Reads, OnceInv, TypeOK, sources, Written
<1>2. IsFiniteSet(req'.figures)
  BY <1>1, FS_Union DEF FiniteInv
<1> QED BY <1>1, <1>2 DEF FiniteInv

(* The token log gives one figure per line it has in the range.            *)
LEMMA ReadLogFinite == OnceInv /\ FiniteInv /\ ReadLog => FiniteInv'
<1> SUFFICES ASSUME OnceInv, FiniteInv, ReadLog PROVE FiniteInv'
  OBVIOUS
<1> DEFINE H == LogRows(req.range)
           Fig == [l \in H |-> Figure("google", l, {l}, {l}, {}, {Timestamp(l)})]
           figures == {Figure("google", l, {l}, {l}, {}, {Timestamp(l)}) : l \in H}
<1>1. Reads("fleet", figures, Log \cap Written)
  BY DEF ReadLog
<1>2. IsFiniteSet(H)
  BY FS_Subset DEF FiniteInv, LogRows
<1>3. \A x \in figures : \E l \in H : x = Fig[l]
  OBVIOUS
<1>4. \A x \in figures : IsFiniteSet(x.usage) /\ IsFiniteSet(x.calls) /\ IsFiniteSet(x.tasks)
  <2>1. IsFiniteSet({})
    BY FS_EmptySet
  <2>2. ASSUME NEW l \in H
        PROVE  IsFiniteSet(Fig[l].usage) /\ IsFiniteSet(Fig[l].calls) /\ IsFiniteSet(Fig[l].tasks)
    <3>1. IsFiniteSet({l})
      BY FS_Singleton
    <3>2. /\ Fig[l].usage = {l}
          /\ Fig[l].calls = {l}
          /\ Fig[l].tasks = {}
      BY DEF Figure
    <3> HIDE DEF Fig
    <3> QED BY <2>1, <3>1, <3>2
  <2> HIDE DEF Fig, figures, H
  <2> QED BY <1>3, <2>2
<1> HIDE DEF figures, Fig, H
<1>5. IsFiniteSet(figures)
  BY <1>2, <1>3, ImageFinite
<1> QED BY <1>1, <1>4, <1>5, ReadsFinite

(* The fleet gives one figure per task it has in the range.                *)
LEMMA ReadFleetFinite == OnceInv /\ FiniteInv /\ ReadFleet => FiniteInv'
<1> SUFFICES ASSUME OnceInv, FiniteInv, ReadFleet PROVE FiniteInv'
  OBVIOUS
<1> DEFINE H == TaskRows(req.range)
           Fig == [k \in H |-> Figure("google", k, {}, {}, {k}, {StartedAt(k)})]
           figures == {Figure("google", k, {}, {}, {k}, {StartedAt(k)}) : k \in H}
<1>1. Reads("codex", figures, {})
  BY DEF ReadFleet
<1>2. IsFiniteSet(H)
  BY FS_Subset DEF FiniteInv, TaskRows
<1>3. \A x \in figures : \E k \in H : x = Fig[k]
  OBVIOUS
<1>4. \A x \in figures : IsFiniteSet(x.usage) /\ IsFiniteSet(x.calls) /\ IsFiniteSet(x.tasks)
  <2>1. IsFiniteSet({})
    BY FS_EmptySet
  <2>2. ASSUME NEW k \in H
        PROVE  IsFiniteSet(Fig[k].usage) /\ IsFiniteSet(Fig[k].calls) /\ IsFiniteSet(Fig[k].tasks)
    <3>1. IsFiniteSet({k})
      BY FS_Singleton
    <3>2. /\ Fig[k].usage = {}
          /\ Fig[k].calls = {}
          /\ Fig[k].tasks = {k}
      BY DEF Figure
    <3> HIDE DEF Fig
    <3> QED BY <2>1, <3>1, <3>2
  <2> HIDE DEF Fig, figures, H
  <2> QED BY <1>3, <2>2
<1> HIDE DEF figures, Fig, H
<1>5. IsFiniteSet(figures)
  BY <1>2, <1>3, ImageFinite
<1> QED BY <1>1, <1>4, <1>5, ReadsFinite

(* Each Codex file that is shown has a line of a session of its own.       *)
LEMMA ReadCodexFinite == OnceInv /\ FiniteInv /\ ReadCodex => FiniteInv'
<1> SUFFICES ASSUME OnceInv, FiniteInv, ReadCodex PROVE FiniteInv'
  OBVIOUS
<1> DEFINE cutoff == CodexRangeCutoff(req.range)
           H == {f \in CodexFile : Chosen(f) /\ HasRow(f, cutoff)}
           Fig == [f \in H |-> FromCodex(CodexRow(f, cutoff))]
           figures == {FromCodex(row) : row \in CodexSessions(req.range)}
           line == [f \in H |-> CHOOSE l \in codex[f].lines : TRUE]
<1>1. Reads("claude", figures, Usage(CodexThere))
  BY DEF ReadCodex
<1>2. \A f \in H : line[f] \in codex[f].lines
  BY DEF HasRow, Since
<1>3. \A f \in CodexFile : codex[f].lines \subseteq Written
  BY DEF OnceInv, SourcesOK, SourcesTypeOK, Written, Line
<1>4. line \in Injection(H, Written)
  <2>1. line \in [H -> Written]
    BY <1>2, <1>3
  <2>2. ASSUME NEW f \in H, NEW g \in H, line[f] = line[g] PROVE f = g
    <3>1. SessionOf[f] = SessionOf[g]
      BY <1>2, <2>2 DEF OnceInv, SourcesOK
    <3> QED BY <3>1, OneChosen DEF OnceInv
  <2> HIDE DEF line, H
  <2> QED BY <2>1, <2>2 DEF Injection, IsInjective
<1>5. IsFiniteSet(H)
  <2> HIDE DEF line, H
  <2> QED BY <1>4, FS_Injection DEF FiniteInv
<1>6. \A x \in figures : \E f \in H : x = Fig[f]
  BY DEF CodexSessions
<1>7. ASSUME NEW f \in H
      PROVE  LET x == FromCodex(CodexRow(f, cutoff))
             IN  IsFiniteSet(x.usage) /\ IsFiniteSet(x.calls) /\ IsFiniteSet(x.tasks)
  <2> DEFINE row == CodexRow(f, cutoff)
  <2>1. row.usage \subseteq codex[f].lines /\ row.tools \subseteq codex[f].lines
    BY DEF CodexRow, Usage, Tools, Since
  <2>2. row.usage \subseteq Written /\ row.tools \subseteq Written
    BY <1>3, <2>1
  <2>3. IsFiniteSet(row.usage) /\ IsFiniteSet(row.tools)
    BY <2>2, FS_Subset DEF FiniteInv
  <2> HIDE DEF row
  <2> QED BY <2>3 DEF row, FromCodex, Figure
<1>8. \A x \in figures : IsFiniteSet(x.usage) /\ IsFiniteSet(x.calls) /\ IsFiniteSet(x.tasks)
  BY <1>6, <1>7
<1> HIDE DEF figures, Fig, H
<1>9. IsFiniteSet(figures)
  BY <1>5, <1>6, ImageFinite
<1> QED BY <1>1, <1>8, <1>9, ReadsFinite

(* The Claude transcripts give one figure per transcript that has lines in *)
(* the range.                                                              *)
LEMMA ReadClaudeFinite == OnceInv /\ FiniteInv /\ ReadClaude => FiniteInv'
<1> SUFFICES ASSUME OnceInv, FiniteInv, ReadClaude PROVE FiniteInv'
  OBVIOUS
<1>1. PICK rows \in ClaudeSessions(req.range) :
            Reads("done", {FromClaude(row) : row \in rows},
                  UNION {Usage(claude[f]) : f \in ClaudeFile})
  BY DEF ReadClaude
<1> DEFINE cutoff == ClaudeRangeCutoff(req.range)
           Fig == [f \in ClaudeFile |-> FromClaude(ClaudeRow(f, cutoff))]
           figures == {FromClaude(row) : row \in rows}
<1>2. \A x \in figures : \E f \in ClaudeFile : x = Fig[f]
  BY DEF ClaudeSessions, FirstRows, AllClaudeSessions
<1>3. \A f \in ClaudeFile : claude[f] \subseteq Written
  BY DEF OnceInv, SourcesOK, SourcesTypeOK, Written, Line
<1>4. ASSUME NEW f \in ClaudeFile
      PROVE  IsFiniteSet(Fig[f].usage) /\ IsFiniteSet(Fig[f].calls) /\ IsFiniteSet(Fig[f].tasks)
  <2> DEFINE row == ClaudeRow(f, cutoff)
  <2>1. row.usage \subseteq claude[f] /\ row.tools \subseteq claude[f] /\ row.turns \subseteq claude[f]
    BY DEF ClaudeRow, Usage, Tools, Turns, Since
  <2>2. row.usage \subseteq Written /\ row.tools \subseteq Written /\ row.turns \subseteq Written
    BY <1>3, <2>1
  <2>3. IsFiniteSet(row.usage) /\ IsFiniteSet(row.tools) /\ IsFiniteSet(row.turns)
    BY <2>2, FS_Subset DEF FiniteInv
  <2> HIDE DEF row
  <2>4. Fig[f] = FromClaude(row)
    BY DEF row
  <2> HIDE DEF Fig
  <2> QED BY <2>3, <2>4 DEF FromClaude, Figure
<1>5. \A x \in figures : IsFiniteSet(x.usage) /\ IsFiniteSet(x.calls) /\ IsFiniteSet(x.tasks)
  BY <1>2, <1>4
<1> HIDE DEF Fig
<1>6. IsFiniteSet(figures)
  <2> HIDE DEF figures
  <2> QED BY <1>2, DashboardAssumption, ImageFinite
<1> QED BY <1>1, <1>5, <1>6, ReadsFinite

(* At first nothing is written and no request is served.                   *)
LEMMA FiniteStart == Init => FiniteInv
<1> SUFFICES ASSUME Init PROVE FiniteInv
  OBVIOUS
<1>1. Written = {} /\ req.figures = {}
  BY DEF Init, SourcesInit, NoRequest, Written
<1> QED BY <1>1, FS_EmptySet DEF FiniteInv

(* Every step keeps FiniteInv.                                             *)
LEMMA FiniteStep == OnceInv /\ FiniteInv /\ [Next]_vars => FiniteInv'
<1> SUFFICES ASSUME OnceInv, FiniteInv, [Next]_vars PROVE FiniteInv'
  OBVIOUS
<1>1. CASE World /\ UNCHANGED req
  BY <1>1, WrittenFinite DEF FiniteInv, OnceInv
<1>2. ASSUME UNCHANGED sources, req'.figures = {} PROVE FiniteInv'
  BY <1>2, FS_EmptySet DEF FiniteInv, sources, Written
<1>3. ASSUME NEW r \in Ranges, Ask(r) PROVE FiniteInv'
  BY <1>2, <1>3 DEF Ask, NoRequest
<1>4. CASE QueryFails \/ Reply
  BY <1>2, <1>4 DEF QueryFails, Reply, NoRequest
<1>5. CASE UNCHANGED vars
  BY <1>5 DEF vars, sources, FiniteInv, Written
<1> QED BY <1>1, <1>3, <1>4, <1>5, ReadLogFinite, ReadFleetFinite, ReadCodexFinite,
           ReadClaudeFinite DEF Next, Request

(* The items are finitely many, one per project, and their sums numbers.   *)
LEMMA ItemsAreItems == OnceInv /\ FiniteInv => ItemsOK(Items)
<1> SUFFICES ASSUME OnceInv, FiniteInv PROVE ItemsOK(Items)
  OBVIOUS
<1> DEFINE P == {ProjectOf[x.home] : x \in req.figures}
<1>1. \A p \in P : p \in Nat
  BY LeaderboardAssumption DEF OnceInv, TypeOK, FigureType
<1>2. \A p \in P : Item(p).project = p
  BY DEF Item
<1>3. ASSUME NEW S, IsFiniteSet(S), NEW part, \A x \in S : IsFiniteSet(part[x])
      PROVE  Cardinality(UNION {{x} \X part[x] : x \in S}) \in Nat
  <2> DEFINE f == [x \in S |-> {x} \X part[x]]
             parts == {{x} \X part[x] : x \in S}
  <2>1. IsFiniteSet(parts)
    <3>1. \A t \in parts : \E x \in S : t = f[x]
      OBVIOUS
    <3> HIDE DEF f, parts
    <3> QED BY <1>3, <3>1, ImageFinite
  <2>2. \A t \in parts : IsFiniteSet(t)
    <3>1. ASSUME NEW x \in S PROVE IsFiniteSet({x} \X part[x])
      <4>1. IsFiniteSet({x})
        BY FS_Singleton
      <4> QED BY <1>3, <4>1, FS_Product
    <3> QED BY <3>1
  <2> HIDE DEF parts
  <2>3. IsFiniteSet(UNION parts)
    BY <2>1, <2>2, FS_UNION
  <2> QED BY <2>3, FS_CardinalityType DEF parts
<1>4. ASSUME NEW p \in P PROVE Item(p) \in ItemType
  <2> DEFINE of == {x \in req.figures : ProjectOf[x.home] = p}
             usage == [x \in of |-> x.usage]
             cost == [x \in of |-> x.usage \X (1 .. Price[x.home])]
             activity == [x \in of |-> (x.calls \X {"call"}) \cup (x.tasks \X {"task"})]
  <2>1. IsFiniteSet(of)
    BY FS_Subset DEF FiniteInv
  <2>2. \A x \in of : /\ IsFiniteSet(x.usage) /\ IsFiniteSet(x.calls) /\ IsFiniteSet(x.tasks)
                      /\ Price[x.home] \in Nat
    BY LeaderboardAssumption DEF FiniteInv, OnceInv, TypeOK, FigureType
  <2>3. ASSUME NEW x \in of
        PROVE  /\ IsFiniteSet(usage[x]) /\ IsFiniteSet(cost[x]) /\ IsFiniteSet(activity[x])
    <3>1. IsFiniteSet(1 .. Price[x.home])
      BY <2>2, FS_Interval
    <3>2. IsFiniteSet(x.usage \X (1 .. Price[x.home]))
      BY <2>2, <3>1, FS_Product
    <3>3. IsFiniteSet(x.calls \X {"call"}) /\ IsFiniteSet(x.tasks \X {"task"})
      BY <2>2, FS_Product, FS_Singleton
    <3>4. IsFiniteSet((x.calls \X {"call"}) \cup (x.tasks \X {"task"}))
      BY <3>3, FS_Union
    <3> QED BY <2>2, <3>2, <3>4
  <2>4. /\ UNION {{x} \X usage[x] : x \in of} = UNION {{x} \X x.usage : x \in of}
        /\ UNION {{x} \X cost[x] : x \in of} =
            UNION {{x} \X (x.usage \X (1 .. Price[x.home])) : x \in of}
        /\ UNION {{x} \X activity[x] : x \in of} =
            UNION {{x} \X ((x.calls \X {"call"}) \cup (x.tasks \X {"task"})) : x \in of}
    BY Zenon
  <2>5. /\ Cardinality(UNION {{x} \X usage[x] : x \in of}) \in Nat
        /\ Cardinality(UNION {{x} \X cost[x] : x \in of}) \in Nat
        /\ Cardinality(UNION {{x} \X activity[x] : x \in of}) \in Nat
    <3> HIDE DEF usage, cost, activity, of
    <3> QED BY <1>3, <2>1, <2>3
  <2>6. /\ Cardinality(UNION {{x} \X x.usage : x \in of}) \in Nat
        /\ Cardinality(UNION {{x} \X (x.usage \X (1 .. Price[x.home])) : x \in of}) \in Nat
        /\ Cardinality(UNION {{x} \X ((x.calls \X {"call"}) \cup (x.tasks \X {"task"})) : x \in of})
            \in Nat
    <3> HIDE DEF usage, cost, activity, of
    <3> QED BY <2>4, <2>5
  <2> QED BY <1>1, <2>6 DEF Item, ItemType
<1>5. IsFiniteSet(P) /\ IsFiniteSet(Items)
  <2> DEFINE f == [x \in req.figures |-> ProjectOf[x.home]]
             g == [p \in P |-> Item(p)]
  <2>1. \A p \in P : \E x \in req.figures : p = f[x]
    OBVIOUS
  <2>2. \A i \in Items : \E p \in P : i = g[p]
    BY DEF Items
  <2> HIDE DEF f, g, P
  <2>3. IsFiniteSet(P)
    BY <2>1, ImageFinite DEF FiniteInv
  <2> QED BY <2>2, <2>3, ImageFinite
<1>6. \A i \in Items : \E p \in P : i = Item(p)
  BY DEF Items
<1> HIDE DEF P
<1> QED BY <1>2, <1>4, <1>5, <1>6 DEF ItemsOK

(* The ranks of an answer are 1, 2, ... whatever the items tie on, no bar  *)
(* is longer than the first, and one consumer is the top one unless nobody *)
(* used a token: the first item, when tokens are sorted by.                *)
THEOREM Ranked == Spec => []RankedRight
<1>1. OnceInv /\ FiniteInv => RankedRight
  <2> SUFFICES ASSUME OnceInv, FiniteInv PROVE RankedRight
    OBVIOUS
  <2>1. ItemsOK(Items)
    BY ItemsAreItems
  <2> QED BY <2>1, AnswerRight DEF RankedRight
<1> QED BY <1>1, FiniteStart, FiniteStep, OnceInvariant, PTL DEF Spec
============================================================================
