---------------------------- MODULE LocalTailer ----------------------------
(***************************************************************************)
(* The passive collector of collector/tailer.go.  An IDE appends lines to  *)
(* one transcript per conversation; a polling goroutine reads what was     *)
(* added since its byte offset and pushes one event per model response     *)
(* into the buffer, and BackfillAllHistory (a goroutine started with the   *)
(* tailer, and the /api/sync/history handler) re-reads every transcript    *)
(* from its start and writes straight to the storage.  Both also write the *)
(* tool calls of a response, and both hold t.mu for the whole scan.  The   *)
(* IDE takes no lock at all.                                               *)
(*                                                                         *)
(* A transcript is measured in half lines: line n is the units 2n-1 and    *)
(* 2n, and a reader that meets only one half of it (the other half not yet *)
(* written, or before its offset) fails to parse it and skips it.          *)
(***************************************************************************)
EXTENDS AsyncBuffer, TokenStore, Integers

CONSTANTS
    Dirs,          (* the conversations, in the order of os.ReadDir         *)
    Script,        (* Script[c]: the lines the IDE will write, each with    *)
                   (* sets (a model or NoModel), responds and calls         *)
    NoModel,
    DefaultModel,  (* what both readers start from                          *)
    Lookback,      (* the 32 KB that initOffsets goes back, in half lines   *)
    FlushEvery,    (* the 200 events after which the backfill writes them   *)
    TasksEvery     (* the 100 tool calls after which it writes those        *)

Conv == ToSet(Dirs)
Lines(c) == DOMAIN Script[c]
Line == [sets : Model \cup {NoModel}, responds : BOOLEAN, calls : BOOLEAN]
ASSUME TailerAssumption ==
    /\ NoModel \notin Model
    /\ DefaultModel \in Model
    /\ Lookback \in Nat
    /\ FlushEvery \in Nat \ {0} /\ TasksEvery \in Nat \ {0}
    /\ Dirs \in Seq(Conv)
    /\ \A c \in Conv : Script[c] \in Seq(Line)
    /\ \A c \in Conv : \A n \in Lines(c) :
        /\ Script[c][n].responds => <<c, n>> \in Chat
        /\ Script[c][n].calls => Script[c][n].responds
    /\ \A k \in Chat : \E c \in Conv : \E n \in Lines(c) : k = <<c, n>>

VARIABLES
    written,       (* the units of each transcript that are on disk         *)
    offset,        (* fileOffsets (an absent entry reads as 0)              *)
    currentModel,  (* one for all conversations, whichever was read last    *)
    mu,            (* who holds t.mu                                        *)
    poll,          (* scanAndIngest: which file, the size it statted, where *)
                   (* its reader is                                         *)
    fill           (* BackfillAllHistory: which file, position, convModel   *)
                   (* and the events and tool calls not yet written         *)

tailerVars == <<offset, currentModel, mu, poll, fill>>

Idle == [at |-> "idle", i |-> 0, pos |-> 0, size |-> 0]
NoFill == [at |-> "idle", i |-> 0, pos |-> 0, model |-> DefaultModel,
           events |-> <<>>, tasks |-> {}]

LineNo(pos) == pos \div 2 + 1
LineEnd(pos) == 2 * LineNo(pos)
Whole(pos) == pos % 2 = 0
(* ReadBytes('\n') and Scanner.Scan find a complete line to return.        *)
HasLine(c, pos) == LineEnd(pos) <= written[c]

ModelAfter(line, model) == IF line.sets = NoModel THEN model ELSE line.sets

TailerInit ==
    /\ written = [c \in Conv |-> 0]
    /\ offset = [c \in Conv |-> 0]
    /\ currentModel = DefaultModel
    /\ mu = "free"
    /\ poll = Idle
    /\ fill = NoFill

(* The IDE writes half a line to a transcript.                             *)
IDEWrites(c) ==
    /\ written[c] < 2 * Len(Script[c])
    /\ written' = [written EXCEPT ![c] = @ + 1]
    /\ UNCHANGED <<bufVars, storeVars, tailerVars>>

----------------------------------------------------------------------------
(* The polling goroutine.                                                  *)

PollTick_Mutant ==
    /\ poll.at = "idle"
    /\ mu' = "poll"
    /\ poll' = [Idle EXCEPT !.at = "stat", !.i = 1]
    /\ UNCHANGED <<bufVars, storeVars, written, offset, currentModel, fill>>
PollTick ==
    /\ poll.at = "idle"
    /\ mu = "free"
    /\ mu' = "poll"
    /\ poll' = [Idle EXCEPT !.at = "stat", !.i = 1]
    /\ UNCHANGED <<bufVars, storeVars, written, offset, currentModel, fill>>

(* os.Stat of the next transcript, and the comparison with its offset.     *)
PollStat ==
    /\ poll.at = "stat"
    /\ poll.i <= Len(Dirs)
    /\ LET c == Dirs[poll.i] IN
        poll' = IF written[c] > offset[c]
                THEN [at |-> "read", i |-> poll.i, pos |-> offset[c], size |-> written[c]]
                ELSE [poll EXCEPT !.i = @ + 1]
    /\ UNCHANGED <<bufVars, storeVars, written, offset, currentModel, mu, fill>>

(* What the reader finds at its position: half a line, or a whole one with *)
(* or without a model response.                                            *)
AtLine ==
    /\ poll.at = "read"
    /\ HasLine(Dirs[poll.i], poll.pos)
PollKey == <<Dirs[poll.i], LineNo(poll.pos)>>
PollLine == Script[Dirs[poll.i]][LineNo(poll.pos)]
Advance ==
    /\ poll' = [poll EXCEPT !.pos = LineEnd(@)]
    /\ UNCHANGED <<logs, rollup, written, offset, mu, fill>>

PollFragment ==
    /\ AtLine
    /\ ~Whole(poll.pos)
    /\ Advance
    /\ UNCHANGED <<bufVars, tasks, currentModel>>

PollOther ==
    /\ AtLine
    /\ Whole(poll.pos)
    /\ ~PollLine.responds
    /\ currentModel' = ModelAfter(PollLine, currentModel)
    /\ Advance
    /\ UNCHANGED <<bufVars, tasks>>

(* The result of Push is only looked at to log.  Then FlushAgentTasksDirect*)
(* writes the tool calls, whether the event was accepted or not.           *)
PollResponse ==
    /\ AtLine
    /\ Whole(poll.pos)
    /\ PollLine.responds
    /\ currentModel' = ModelAfter(PollLine, currentModel)
    /\ \/ Push([key |-> PollKey, model |-> currentModel'])
       \/ PushRefused
    /\ \E ok \in BOOLEAN :
        InsertAgentTaskBatch({key \in {PollKey} : PollLine.calls}, ok)
    /\ Advance

(* os.Open fails (another program holds the file): nothing is read, but    *)
(* the offset moves on all the same.                                       *)
PollOpenFails ==
    /\ poll.at = "read"
    /\ poll.pos = offset[Dirs[poll.i]]
    /\ offset' = [offset EXCEPT ![Dirs[poll.i]] = poll.size]
    /\ poll' = [Idle EXCEPT !.at = "stat", !.i = poll.i + 1]
    /\ UNCHANGED <<bufVars, storeVars, written, currentModel, mu, fill>>

(* End of file: what is left, if anything, is the first half of a line; it *)
(* fails to parse.  The offset becomes the size statted BEFORE reading.    *)
PollEOF_Mutant ==
    /\ poll.at = "read"
    /\ ~HasLine(Dirs[poll.i], poll.pos)
    /\ offset' = [offset EXCEPT ![Dirs[poll.i]] = written[Dirs[poll.i]]]
    /\ poll' = [Idle EXCEPT !.at = "stat", !.i = poll.i + 1]
    /\ UNCHANGED <<bufVars, storeVars, written, currentModel, mu, fill>>
PollEOF ==
    /\ poll.at = "read"
    /\ ~HasLine(Dirs[poll.i], poll.pos)
    /\ offset' = [offset EXCEPT ![Dirs[poll.i]] = poll.size]
    /\ poll' = [Idle EXCEPT !.at = "stat", !.i = poll.i + 1]
    /\ UNCHANGED <<bufVars, storeVars, written, currentModel, mu, fill>>

PollEnd_Mutant ==
    /\ poll.at = "stat"
    /\ poll.i > Len(Dirs)
    /\ poll' = Idle
    /\ UNCHANGED <<bufVars, storeVars, written, offset, currentModel, mu, fill>>
PollEnd ==
    /\ poll.at = "stat"
    /\ poll.i > Len(Dirs)
    /\ poll' = Idle
    /\ mu' = "free"
    /\ UNCHANGED <<bufVars, storeVars, written, offset, currentModel, fill>>

----------------------------------------------------------------------------
(* The backfill.                                                           *)

FillStart ==
    /\ fill.at = "idle"
    /\ mu = "free"
    /\ mu' = "fill"
    /\ fill' = [NoFill EXCEPT !.at = "read", !.i = 1]
    /\ UNCHANGED <<bufVars, storeVars, written, offset, currentModel, poll>>

(* One scanned line.  The errors of FlushDirect (ok) and of                *)
(* FlushAgentTasksDirect (okTasks) are discarded together with what was to *)
(* be written.  "line.calls" stands for one tool call.                     *)
FillLine(ok, okTasks) ==
    /\ fill.at = "read"
    /\ fill.i <= Len(Dirs)
    /\ HasLine(Dirs[fill.i], fill.pos)
    /\ LET key == <<Dirs[fill.i], LineNo(fill.pos)>>
           line == Script[key[1]][key[2]]
           model == ModelAfter(line, fill.model)
           events == IF line.responds
                     THEN Append(fill.events, [key |-> key, model |-> model])
                     ELSE fill.events
           called == fill.tasks \cup {k \in {key} : line.calls}
           full == Len(events) >= FlushEvery
           fullTasks == line.responds /\ Cardinality(called) >= TasksEvery
       IN /\ IF full THEN InsertUsageBatch(events, ok) ELSE UNCHANGED logs
          /\ IF fullTasks THEN InsertAgentTaskBatch(called, okTasks) ELSE UNCHANGED tasks
          /\ fill' = [fill EXCEPT !.pos = LineEnd(@), !.model = model,
                                  !.events = IF full THEN <<>> ELSE events,
                                  !.tasks = IF fullTasks THEN {} ELSE called]
    /\ UNCHANGED <<bufVars, rollup, written, offset, currentModel, mu, poll>>

(* os.Open fails: the transcript is passed over.                           *)
FillOpenFails ==
    /\ fill.at = "read"
    /\ fill.i <= Len(Dirs)
    /\ fill.pos = 0
    /\ fill' = [fill EXCEPT !.pos = 2 * Len(Script[Dirs[fill.i]])]
    /\ UNCHANGED <<bufVars, storeVars, written, offset, currentModel, mu, poll>>

(* An incomplete last line does not parse: the next transcript, if any, is *)
(* opened.                                                                 *)
FillNextFile_Mutant ==
    /\ fill.at = "read"
    /\ fill.i <= Len(Dirs)
    /\ ~HasLine(Dirs[fill.i], fill.pos)
    /\ fill' = [fill EXCEPT !.i = @ + 1, !.model = DefaultModel, !.pos = 0, !.events = <<>>]
    /\ UNCHANGED <<bufVars, storeVars, written, offset, currentModel, mu, poll>>
FillNextFile ==
    /\ fill.at = "read"
    /\ fill.i <= Len(Dirs)
    /\ ~HasLine(Dirs[fill.i], fill.pos)
    /\ fill' = [fill EXCEPT !.i = @ + 1, !.pos = 0, !.model = DefaultModel]
    /\ UNCHANGED <<bufVars, storeVars, written, offset, currentModel, mu, poll>>

(* All files are read: the rest is written and t.mu released.              *)
FillEnd_Mutant(ok, okTasks) ==
    /\ fill.at = "read"
    /\ fill.i > Len(Dirs)
    /\ fill' = NoFill
    /\ mu' = "free"
    /\ UNCHANGED <<bufVars, storeVars, written, offset, currentModel, poll>>
FillEnd(ok, okTasks) ==
    /\ fill.at = "read"
    /\ fill.i > Len(Dirs)
    /\ InsertUsageBatch(fill.events, ok)
    /\ InsertAgentTaskBatch(fill.tasks, okTasks)
    /\ fill' = NoFill
    /\ mu' = "free"
    /\ UNCHANGED <<bufVars, rollup, written, offset, currentModel, poll>>

FillStep(ok, okTasks) == FillLine(ok, okTasks) \/ FillEnd(ok, okTasks)

----------------------------------------------------------------------------
(* The program starts again after a crash: the buffer and the tailer lose  *)
(* what they held, and initOffsets places each offset at the end of a      *)
(* transcript that was not touched for 30 minutes, Lookback before the end *)
(* of one that was.                                                        *)
InitOffset(c, recent) == IF recent /\ written[c] > Lookback THEN written[c] - Lookback
                         ELSE IF recent THEN 0 ELSE written[c]
Restart(recent) ==
    /\ chan' = <<>> /\ batch' = <<>> /\ pc' = "select" /\ cancelled' = FALSE
    /\ offset' = [c \in Conv |-> InitOffset(c, recent[c])]
    /\ currentModel' = DefaultModel
    /\ mu' = "free"
    /\ poll' = Idle
    /\ fill' = NoFill
    /\ UNCHANGED <<storeVars, written>>
============================================================================
