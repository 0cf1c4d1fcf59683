----------------------------- MODULE Lifecycle -----------------------------
(***************************************************************************)
(* The shutdown of main.go, with the goroutines that are still running     *)
(* when the stop signal arrives: the tailer's poll loop, the proxy's       *)
(* handlers and the goroutines they leave behind to parse a response, the  *)
(* dashboard's handlers and the buffer's worker.  main stops them one after*)
(* the other; what is not joined goes on until the process exits.  The     *)
(* goroutines that never touch an event (the session monitors, the rollup, *)
(* the periodic backup) are left out; module Backup has the last of them.  *)
(*                                                                         *)
(* An event is named after what produces it: a line of a transcript, a     *)
(* proxied request, or a POST to /api/simulate/event.  Failing writes are  *)
(* left to BufferSystem and Pipeline: the storage keeps what it is given.  *)
(***************************************************************************)
EXTENDS AsyncBuffer, FiniteSets, SequencesExt

CONSTANTS
    Lines,       (* responses the poll loop finds                           *)
    Requests,    (* requests that reach the proxy                           *)
    Posts        (* requests that simulate an event on the dashboard        *)

Event == Lines \cup Requests \cup Posts
Served == Requests \cup Posts

VARIABLES
    main,        (* the call main is in since the signal                    *)
    expired,     (* the 5 s of the context both Shutdowns share are over    *)
    poll,        (* the poll loop: at its select, in a scan, or returned    *)
    handler,     (* the handler goroutine of each request and post          *)
    parser,      (* the goroutine that modifyResponse starts per request    *)
    final,       (* main's last backup: not tried, done or failed           *)
    snapshot,    (* the events in the final backup                          *)
    pushed,      (* the events offered to Push                              *)
    accepted,    (* those it returned true for                              *)
    handed       (* those the worker wrote                                  *)

control == <<main, expired>>
web == <<handler, parser>>
backups == <<final, snapshot>>
offers == <<pushed, accepted>>
vars == <<bufVars, control, poll, web, backups, offers, handed>>

Running == {"run", "tailer.Stop", "proxy.Shutdown", "dash.Shutdown", "buf.Stop"}
Drained == {"backup", "store.Close", "exited"}

(* No goroutine runs once the process has exited.                          *)
Alive == main # "exited"

Init ==
    /\ BufInit
    /\ main = "run" /\ expired = FALSE
    /\ poll = "select"
    /\ handler = [r \in Served |-> "none"]
    /\ parser = [r \in Requests |-> "none"]
    /\ final = "none" /\ snapshot = {}
    /\ pushed = {} /\ accepted = {} /\ handed = {}

(* Push, called by any goroutine.                                          *)
Offer(e) ==
    /\ pushed' = pushed \cup {e}
    /\ \/ Push(e) /\ accepted' = accepted \cup {e}
       \/ PushRefused /\ UNCHANGED accepted

----------------------------------------------------------------------------
(* The poll loop.  Stop cancels its context and waits for it; a scan that  *)
(* has begun is finished first, and when the ticker is ready as well the   *)
(* select may start another.                                               *)
PollScan ==
    /\ poll = "select" /\ poll' = "scan"
    /\ UNCHANGED <<bufVars, offers>>
PollPush ==
    /\ poll = "scan"
    /\ \E e \in Lines \ pushed : Offer(e)
    /\ UNCHANGED poll
PollScanned ==
    /\ poll = "scan" /\ poll' = "select"
    /\ UNCHANGED <<bufVars, offers>>
PollReturns ==
    /\ poll = "select" /\ main # "run"
    /\ poll' = "done"
    /\ UNCHANGED <<bufVars, offers>>

Poll ==
    /\ Alive
    /\ PollScan \/ PollPush \/ PollScanned \/ PollReturns
    /\ UNCHANGED <<control, web, backups, handed>>

----------------------------------------------------------------------------
(* The servers.  Shutdown closes the listener first, so no handler starts  *)
(* once main has reached it.                                               *)
Listening(r) ==
    main \in {"run", "tailer.Stop"} \cup (IF r \in Posts THEN {"proxy.Shutdown"} ELSE {})
Accept(r) ==
    /\ handler[r] = "none"
    /\ Listening(r)
    /\ handler' = [handler EXCEPT ![r] = "serving"]
    /\ UNCHANGED <<bufVars, parser, offers>>

(* modifyResponse: the upstream has answered.  The parser is started if the*)
(* body is JSON, and the handler goes on to copy it to the client.         *)
ModifyResponse(r) ==
    /\ handler[r] = "serving"
    /\ handler' = [handler EXCEPT ![r] = "replying"]
    /\ parser' \in {parser, [parser EXCEPT ![r] = "parsing"]}
    /\ UNCHANGED <<bufVars, offers>>

(* parseAndRecordMetadata: nobody waits for it.  A body without usage      *)
(* metadata makes no event.                                                *)
Record(r) ==
    /\ parser[r] = "parsing"
    /\ parser' = [parser EXCEPT ![r] = "done"]
    /\ Offer(r) \/ UNCHANGED <<bufVars, offers>>
    /\ UNCHANGED handler

(* handleSimulateEvent: Push, whose result is not looked at, then an answer*)
(* that says the event has been loaded.                                    *)
Simulate(r) ==
    /\ handler[r] = "serving"
    /\ handler' = [handler EXCEPT ![r] = "replying"]
    /\ Offer(r)
    /\ UNCHANGED parser
Reply(r) ==
    /\ handler[r] = "replying"
    /\ handler' = [handler EXCEPT ![r] = "done"]
    /\ UNCHANGED <<bufVars, parser, offers>>

Serve ==
    /\ Alive
    /\ \/ \E r \in Served : Accept(r) \/ Reply(r)
       \/ \E r \in Requests : ModifyResponse(r) \/ Record(r)
       \/ \E r \in Posts : Simulate(r)
    /\ UNCHANGED <<control, poll, backups, handed>>

----------------------------------------------------------------------------
(* The buffer's worker; its flush writes to the storage.                   *)
Worker ==
    /\ Alive
    /\ \/ WorkerMoves /\ UNCHANGED handed
       \/ FlushReturns /\ handed' = handed \cup ToSet(batch)
    /\ UNCHANGED <<control, poll, web, backups, offers>>

Expire ==
    /\ Alive
    /\ main # "run" /\ ~expired
    /\ expired' = TRUE
    /\ UNCHANGED <<bufVars, main, poll, web, backups, offers, handed>>

----------------------------------------------------------------------------
(* main, after the signal.                                                 *)
From(stage, next) == main = stage /\ main' = next

Signal == From("run", "tailer.Stop") /\ UNCHANGED bufVars

(* tailer.Stop waits for the poll loop; the backfill is not waited for.    *)
TailerStopped_Mutant == From("tailer.Stop", "proxy.Shutdown") /\ UNCHANGED bufVars
TailerStopped ==
    /\ From("tailer.Stop", "proxy.Shutdown")
    /\ poll = "done"
    /\ UNCHANGED bufVars

(* Shutdown waits for the handlers of its own server and gives up when the *)
(* context expires; its error is discarded.                                *)
Quiet(served) == \A r \in served : handler[r] \in {"none", "done"}
ProxyShutdown_Mutant ==
    /\ From("proxy.Shutdown", "dash.Shutdown")
    /\ Quiet(Served)
    /\ UNCHANGED bufVars
ProxyShutdown ==
    /\ From("proxy.Shutdown", "dash.Shutdown")
    /\ Quiet(Requests) \/ expired
    /\ UNCHANGED bufVars

(* The rollup ticker is stopped and rollupDone closed in passing; then     *)
(* buf.Stop cancels the buffer's context.                                  *)
DashShutdown ==
    /\ From("dash.Shutdown", "buf.Stop")
    /\ Quiet(Posts) \/ expired
    /\ Cancel

BufStopped_Mutant == From("buf.Stop", "backup") /\ UNCHANGED bufVars
BufStopped ==
    /\ From("buf.Stop", "backup")
    /\ StopReturns
    /\ UNCHANGED bufVars

(* The last PerformAutoBackup: its error is a warning.                     *)
FinalBackup ==
    /\ From("backup", "store.Close")
    /\ \/ final' = "done" /\ snapshot' = handed
       \/ final' = "failed" /\ UNCHANGED snapshot
    /\ UNCHANGED bufVars

(* The deferred calls, of which only store.Close still has something to do,*)
(* and the end of the process.                                             *)
Exit == From("store.Close", "exited") /\ UNCHANGED bufVars

Main ==
    /\ \/ /\ Signal \/ TailerStopped \/ ProxyShutdown \/ DashShutdown \/ BufStopped \/ Exit
          /\ UNCHANGED <<final, snapshot>>
       \/ FinalBackup
    /\ UNCHANGED <<expired, poll, web, offers, handed>>

Next == Poll \/ Serve \/ Worker \/ Expire \/ Main

Spec == Init /\ [][Next]_vars

(* main, the worker and a scan go on; time passes; and a select that finds *)
(* ctx.Done() ready again and again takes it in the end.  No handler and no*)
(* parser needs to make progress for main to return, and nobody needs to   *)
(* send the signal.                                                        *)
FairSpec ==
    /\ Spec
    /\ WF_vars(Main /\ main # "run") /\ WF_vars(Worker) /\ WF_vars(Expire)
    /\ WF_vars(PollScanned /\ Poll) /\ SF_vars(PollReturns /\ Poll)

----------------------------------------------------------------------------
TypeOK ==
    /\ BufTypeOK(Event)
    /\ main \in Running \cup Drained
    /\ expired \in BOOLEAN
    /\ poll \in {"select", "scan", "done"}
    /\ handler \in [Served -> {"none", "serving", "replying", "done"}]
    /\ parser \in [Requests -> {"none", "parsing", "done"}]
    /\ final \in {"none", "done", "failed"}
    /\ handed \subseteq accepted /\ accepted \subseteq pushed /\ pushed \subseteq Event
    /\ snapshot \subseteq handed

(* Once buf.Stop has returned, an accepted event that is not written is one*)
(* of a parser that nobody waits for, or of a handler that was still at    *)
(* work when the context of the two Shutdowns expired.  In particular no   *)
(* response the poll loop had pushed is lost.                              *)
LossOnlyFromStragglers ==
    main \in Drained =>
        accepted \ handed \subseteq Requests \cup (IF expired THEN Posts ELSE {})

(* The final backup holds everything the buffer ever wrote: no flush comes *)
(* after it, and none meets the closed database.                           *)
FinalBackupIsLast ==
    main \in {"store.Close", "exited"} =>
        /\ pc = "done"
        /\ final = "done" => snapshot = handed

(* After the signal main returns, whatever the handlers, the parsers and   *)
(* the upstream server do or fail to do.                                   *)
ShutdownTerminates == main # "run" ~> main = "exited"

----------------------------------------------------------------------------
(* What the documentation says and the code does not do.                   *)

(* "Zero data loss on shutdown": every event that Push accepted is in the  *)
(* database when the process has exited.                                   *)
ZeroDataLoss == main = "exited" => accepted \subseteq handed
============================================================================
