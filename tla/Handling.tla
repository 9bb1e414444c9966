------------------------------ MODULE Handling ------------------------------
(***************************************************************************)
(* How a failure gets from an MPI call back to the application on one rank: *)
(* the error handler, the recovery callbacks, which may fail and recover in *)
(* turn, the automatic synchronisation of the message logs, and the three   *)
(* ways of resuming (longjmp, return code, exception), each crossing the    *)
(* scoped settings and the scoped active log of the calls it leaves.  The   *)
(* repair itself is module ProcessRecovery, a synchronisation MessageLog.   *)
(***************************************************************************)
EXTENDS Integers, Sequences, SequencesExt

CONSTANTS Callback,      \* functions that an application registers
          Catching,      \* those that catch a CommException of their own MPI calls
          Log,           \* ids of message logs
          MaxFailures,   \* bound: failures met
          MaxCalls       \* bound: calls of the application into MPI or Fenix

ASSUME HandlingAssumption ==
  Catching \subseteq Callback /\ MaxFailures \in Nat /\ MaxCalls \in Nat

NoLog == "none"

VARIABLES settings,  \* fenix_rt.settings
          cbs,       \* the POST_RECOVERY callbacks, in the order of registration
          depth,     \* callbacks_depth
          order,     \* mlog_order: the logs that exist, oldest first
          active,    \* active_mlog_id
          stack,     \* the calls that are under way, the innermost last
          exc,       \* a CommException is on its way up
          outcome,   \* how the last call came back to the application
          ran,       \* the callbacks begun since the last repair, or all registered ones (history)
          synced,    \* the logs synchronised since the last repair, or all existing ones (history)
          chosen,    \* the settings the application asked for (history)
          wanted,    \* the log it activated (history)
          failures, calls

vars == <<settings, cbs, depth, order, active, stack, exc, outcome, ran, synced,
          chosen, wanted, failures, calls>>
appVars == <<cbs, order, chosen>>

(* "silent" stands for PRINT too, "repair" for SPAWN, which is not implemented. *)
Modes ==
  [recovery : {"ignore", "noop", "repair"}, resume : {"jump", "return", "throw"},
   unhandled : {"silent", "abort"}, cb : {"rethrow", "squash"},
   mlog : {"manual", "inline", "autosync"}]

(* fenix_default_settings; Fenix_Init has a jump_buf, fenix::init has none *)
DefaultSettings ==
  {[recovery |-> "repair", resume |-> m, unhandled |-> "abort", cb |-> "squash", mlog |-> "manual"]
     : m \in {"jump", "throw"}}

Init ==
  /\ settings \in DefaultSettings /\ chosen = settings
  /\ cbs = << >> /\ order = << >> /\ active = NoLog /\ wanted = NoLog
  /\ depth = 0 /\ stack = << >> /\ exc = FALSE
  /\ outcome = [how |-> "ok", logged |-> FALSE, resume |-> settings.resume]
  /\ ran = << >> /\ synced = << >> /\ failures = 0 /\ calls = 0

InApp == stack = << >> /\ outcome.how # "aborted"
Top   == Last(stack)
TopIs(kind) == stack # << >> /\ Top.kind = kind

(* ScopedDefaultRuntimeOptions *)
Runtime(s) == [s EXCEPT !.resume = "throw", !.unhandled = "abort"]

(* A call, and the settings and the log that its scoped objects put back. *)
Frame(kind, what, layer) ==
  [kind |-> kind, what |-> what, layer |-> layer, next |-> 1, settings |-> settings, mlog |-> active]

-----------------------------------------------------------------------------
(* The application's own calls, when nothing is under way *)

SetOption(name, option) ==
  /\ InApp /\ settings[name] # option
  /\ settings' = [settings EXCEPT ![name] = option]
  /\ chosen' = settings'
  /\ ran' = cbs /\ synced' = order
  /\ UNCHANGED <<cbs, depth, order, active, stack, exc, outcome, wanted, failures, calls>>

Register(c) ==
  /\ InApp /\ ~Contains(cbs, c)
  /\ cbs' = Append(cbs, c)
  /\ ran' = cbs'
  /\ UNCHANGED <<settings, depth, order, active, stack, exc, outcome, synced, chosen, wanted, failures, calls>>

PopCallback ==
  /\ InApp /\ cbs # << >>
  /\ cbs' = Front(cbs)
  /\ ran' = cbs'
  /\ UNCHANGED <<settings, depth, order, active, stack, exc, outcome, synced, chosen, wanted, failures, calls>>

CreateLog(id) ==
  /\ InApp /\ ~Contains(order, id)
  /\ order' = Append(order, id)
  /\ synced' = order'
  /\ UNCHANGED <<settings, cbs, depth, active, stack, exc, outcome, ran, chosen, wanted, failures, calls>>

(* an unknown id leaves no log active *)
ActivateLog(id) ==
  /\ InApp
  /\ active' = IF Contains(order, id) THEN id ELSE NoLog
  /\ wanted' = active'
  /\ UNCHANGED <<settings, cbs, depth, order, stack, exc, outcome, ran, synced, chosen, failures, calls>>

DeleteLog(id) ==
  /\ InApp
  /\ \E i \in DOMAIN order : order[i] = id /\ order' = RemoveAt(order, i)
  /\ active' = IF active = id THEN NoLog ELSE active
  /\ wanted' = active'
  /\ synced' = order'
  /\ UNCHANGED <<settings, cbs, depth, stack, exc, outcome, ran, chosen, failures, calls>>

(* plain: an MPI call that is not logged; send, wait, coll: calls that the    *)
(* active log takes; invoke: Fenix_Callback_invoke_all; detect, probe:         *)
(* Fenix_Process_detect_failures with and without recovery.                    *)
Call(what) ==
  /\ InApp /\ calls < MaxCalls
  /\ what \in {"send", "wait", "coll"} => active # NoLog
  /\ settings' = CASE what \in {"coll", "invoke", "detect"} -> Runtime(settings)
                   [] what = "probe" -> [Runtime(settings) EXCEPT !.recovery = "ignore"]
                   [] OTHER -> settings
  /\ active' = IF what \in {"detect", "probe"} THEN NoLog ELSE active
  /\ LET call == Frame("call", what, 0)
         inner == [Frame("invoke", "between", depth) EXCEPT !.settings = Runtime(settings)]
     IN  IF what = "invoke"
         THEN stack' = <<call, inner>> /\ depth' = depth + 1 /\ ran' = << >>
         ELSE stack' = <<call>> /\ UNCHANGED <<depth, ran>>
  /\ calls' = calls + 1
  /\ UNCHANGED <<appVars, wanted, exc, outcome, synced, failures>>

(* How the call at the bottom ended; logged: inline recovery is to hide the failures. *)
Ended(how) ==
  LET call == stack[1] IN
  [how |-> how, resume |-> call.settings.resume,
   logged |-> /\ call.what \in {"send", "wait", "coll"}
              /\ call.settings.mlog # "manual" /\ call.settings.recovery # "ignore"]

(* Control is back in the application; what the scoped objects of the call, if *)
(* it has any, do not put back stays as those inside it have left it.          *)
Back(how, scoped, log) ==
  /\ stack' = << >> /\ exc' = FALSE
  /\ outcome' = Ended(how)
  /\ settings' = IF stack[1].what \in {"plain", "send", "wait"} THEN scoped ELSE stack[1].settings
  /\ active' = IF stack[1].what \in {"detect", "probe"} THEN stack[1].mlog ELSE log
  /\ UNCHANGED wanted

CallSucceeds ==
  /\ TopIs("call") /\ ~exc
  /\ Back("ok", settings, active)
  /\ UNCHANGED <<appVars, depth, ran, synced, failures, calls>>

-----------------------------------------------------------------------------
(* __fenix_test_MPI *)

(* longjmp over the handler: its destructor does not run, and the application *)
(* is to find no log active.                                                  *)
Jump(scoped, log) ==
  /\ stack' = << >> /\ exc' = FALSE
  /\ outcome' = Ended("jump")
  /\ settings' = scoped /\ active' = log
  /\ wanted' = NoLog

Goes(frames, scoped, log, thrown) ==
  /\ stack' = frames /\ settings' = scoped /\ active' = log /\ exc' = thrown
  /\ UNCHANGED <<outcome, wanted>>

(* The MPI call returns an error code.  Inside Fenix errors are thrown, so the  *)
(* caller is the application's call; RankLog::wait ignores the code and goes on. *)
ErrorReturned(log, how) ==
  IF stack[1].what = "wait" THEN Goes(<<stack[1]>>, settings, log, FALSE)
                             ELSE Back(how, settings, log)

(* resume_application(throw_new) of a handler that leaves these frames: inside *)
(* it one log is active, and its destructor activates the other.               *)
Resume(frames, log, inside) ==
  CASE settings.resume = "jump"   -> Jump(settings, inside)
    [] settings.resume = "throw"  -> Goes(frames, settings, log, TRUE)
    [] settings.resume = "return" -> ErrorReturned(log, "error")

InMPI == TopIs("call") \/ TopIs("sync") \/ (TopIs("invoke") /\ Top.what = "running")

(* the PRE_RECOVERY callbacks, which are local, are done when the repair begins *)
HandlerRepairs ==
  /\ InMPI /\ ~exc /\ failures < MaxFailures /\ settings.recovery # "ignore"
  /\ failures' = failures + 1
  /\ LET layer == IF depth = 0 THEN 0 ELSE depth + 1
         handler == Frame("handler", "sync", 0)
     IN  /\ depth' = layer + 1
         /\ stack' = stack \o <<handler, Frame("invoke", "between", layer)>>
  /\ settings' = Runtime(settings)
  /\ active' = NoLog
  /\ ran' = << >>
  /\ synced' = IF settings.mlog = "autosync" THEN << >> ELSE order
  /\ UNCHANGED <<appVars, wanted, exc, outcome, calls>>

HandlerIgnores ==
  /\ InMPI /\ ~exc /\ failures < MaxFailures /\ settings.recovery = "ignore"
  /\ failures' = failures + 1
  /\ Resume(stack, active, NoLog)
  /\ UNCHANGED <<appVars, depth, ran, synced, calls>>

(* an error that Fenix does not handle *)
HandlerUnhandled ==
  /\ InMPI /\ ~exc /\ failures < MaxFailures
  /\ failures' = failures + 1
  /\ IF settings.unhandled = "abort"
     THEN /\ outcome' = [outcome EXCEPT !.how = "aborted"] /\ stack' = << >>
          /\ UNCHANGED <<exc, settings, active, wanted>>
     ELSE ErrorReturned(active, "unhandled")
  /\ UNCHANGED <<appVars, depth, ran, synced, calls>>

(* __fenix_postinit after the callbacks: the logs, one after the other *)
\* Mutant: the last log is forgotten.
MutSyncs == settings.mlog = "autosync" /\ Top.next < Len(order)
Syncs == settings.mlog = "autosync" /\ Top.next <= Len(order)

BeginSync ==
  /\ TopIs("handler") /\ ~exc /\ Syncs
  /\ Goes(Append(stack, Frame("sync", order[Top.next], 0)), Runtime(settings), active, FALSE)
  /\ UNCHANGED <<appVars, depth, ran, synced, failures, calls>>

(* The handler below goes on with the next log. *)
NextLog == [Front(stack) EXCEPT ![Len(stack) - 1].next = @ + 1]

EndSync ==
  /\ TopIs("sync") /\ ~exc
  /\ synced' = Append(synced, Top.what)
  /\ Goes(NextLog, Top.settings, active, FALSE)
  /\ UNCHANGED <<appVars, depth, ran, failures, calls>>

HandlerResumes ==
  /\ TopIs("handler") /\ ~exc /\ ~Syncs
  /\ Resume(Front(stack), Top.mlog, active)
  /\ UNCHANGED <<appVars, depth, ran, synced, failures, calls>>

-----------------------------------------------------------------------------
(* callback_invoke_all *)

\* Mutant: prior calls go on with their callbacks.
MutMostRecent == TRUE
MostRecent == depth = Top.layer + 1

BeginCallback ==
  /\ TopIs("invoke") /\ ~exc /\ Top.what = "between" /\ Top.next <= Len(cbs) /\ MostRecent
  /\ ran' = Append(ran, cbs[Top.next])
  /\ stack' = [stack EXCEPT ![Len(stack)].what = "running"]
  /\ UNCHANGED <<appVars, wanted, settings, depth, active, exc, outcome, synced, failures, calls>>

EndCallback ==
  /\ TopIs("invoke") /\ ~exc /\ Top.what = "running"
  /\ stack' = [stack EXCEPT ![Len(stack)].what = "between", ![Len(stack)].next = @ + 1]
  /\ UNCHANGED <<appVars, wanted, settings, depth, active, exc, outcome, ran, synced, failures, calls>>

(* the callback's own catch clause *)
CatchInCallback ==
  /\ TopIs("invoke") /\ exc /\ cbs[Top.next] \in Catching
  /\ exc' = FALSE
  /\ UNCHANGED <<appVars, wanted, settings, depth, active, stack, outcome, ran, synced, failures, calls>>

(* the exception of a callback that does not catch it *)
Uncaught == TopIs("invoke") /\ exc /\ cbs[Top.next] \notin Catching

(* out of the function; Fenix_Callback_invoke_all and the handler ignore what it returns *)
InvokeReturns ==
  IF Len(stack) = 2 THEN Back("ok", Top.settings, active) ELSE Goes(Front(stack), Top.settings, active, FALSE)

\* Mutant: the depth is not reset by the outermost call.
MutLeaveDepth == depth' = depth
LeaveDepth == depth' = IF Top.layer = 0 THEN 0 ELSE depth

EndInvoke ==
  /\ TopIs("invoke") /\ ~exc /\ Top.what = "between" /\ (Top.next > Len(cbs) \/ ~MostRecent)
  /\ LeaveDepth
  /\ InvokeReturns
  /\ UNCHANGED <<appVars, ran, synced, failures, calls>>

Squash ==
  /\ Uncaught /\ settings.cb = "squash"
  /\ LeaveDepth
  /\ InvokeReturns
  /\ UNCHANGED <<appVars, ran, synced, failures, calls>>

(* COMM_EXCEPTION_HANDLER of the function on top, whose scoped options are gone *)
ApiCatches(Returns) ==
  CASE Top.settings.resume = "jump"   -> Jump(Top.settings, active)
    [] Top.settings.resume = "throw"  -> Goes(Front(stack), Top.settings, active, TRUE)
    [] Top.settings.resume = "return" -> Returns

Rethrow ==
  /\ Uncaught /\ settings.cb = "rethrow"
  /\ LeaveDepth
  /\ ApiCatches(InvokeReturns)
  /\ UNCHANGED <<appVars, ran, synced, failures, calls>>

SyncThrows ==
  /\ TopIs("sync") /\ exc
  /\ ApiCatches(Goes(NextLog, Top.settings, active, FALSE))
  /\ UNCHANGED <<appVars, depth, ran, synced, failures, calls>>

(* through __fenix_test_MPI and the MPI call *)
HandlerThrows ==
  /\ TopIs("handler") /\ exc
  /\ Goes(Front(stack), settings, Top.mlog, TRUE)
  /\ UNCHANGED <<appVars, depth, ran, synced, failures, calls>>

(* inline recovery of the call at the bottom *)
\* Mutant: a failed send is not taken for done.
MutInline ==
  /\ stack[1].settings.mlog # "manual"
  /\ \/ stack[1].what \in {"wait", "coll"}
     \/ stack[1].what = "detect" /\ stack[1].mlog # NoLog /\ stack[1].settings.recovery # "ignore"
Inline ==
  /\ stack[1].settings.mlog # "manual"
  /\ \/ stack[1].what \in {"send", "wait", "coll"}
     \/ stack[1].what = "detect" /\ stack[1].mlog # NoLog /\ stack[1].settings.recovery # "ignore"

(* a send is in the log, and was replayed; the others are tried again *)
CallRetries ==
  /\ TopIs("call") /\ exc /\ Inline
  /\ IF stack[1].what = "send" THEN Back("ok", settings, active) ELSE Goes(stack, settings, active, FALSE)
  /\ UNCHANGED <<appVars, depth, ran, synced, failures, calls>>

CallThrows ==
  /\ TopIs("call") /\ exc /\ ~Inline
  /\ LET how == CASE Top.what = "probe" \/ Top.settings.resume = "return" -> "error"
                  [] Top.settings.resume = "throw" -> "throw"
                  [] OTHER -> "jump"
     IN  Back(how, settings, active)
  /\ UNCHANGED <<appVars, depth, ran, synced, failures, calls>>

-----------------------------------------------------------------------------
(* bound: the application configures Fenix before its first call *)
Configure ==
  /\ calls = 0
  /\ \/ \E name \in DOMAIN settings : \E option \in {m[name] : m \in Modes} : SetOption(name, option)
     \/ \E c \in Callback : Register(c)
     \/ PopCallback
     \/ \E id \in Log : CreateLog(id) \/ ActivateLog(id) \/ DeleteLog(id)

Handler == HandlerRepairs \/ HandlerIgnores \/ HandlerUnhandled \/ HandlerResumes \/ HandlerThrows
Sync    == BeginSync \/ EndSync \/ SyncThrows
Invoke  == BeginCallback \/ EndCallback \/ CatchInCallback \/ EndInvoke \/ Squash \/ Rethrow

Next ==
  \/ Configure
  \/ \E what \in {"plain", "send", "wait", "coll", "invoke", "detect", "probe"} : Call(what)
  \/ CallSucceeds \/ CallRetries \/ CallThrows
  \/ Handler \/ Sync \/ Invoke

Spec == Init /\ [][Next]_vars

-----------------------------------------------------------------------------
(* Whatever threw, returned or jumped, and through how many nested recoveries, *)
(* the application finds the settings and the active log it left (none if it   *)
(* was resumed by a longjmp over the error handler), and callbacks_depth ready *)
(* for the next failure (fenix_util.hpp 68-105, fenix_callbacks.cpp 114, 122). *)
ScopesUnwound ==
  InApp => settings = chosen /\ active = wanted /\ depth = 0 /\ ~exc

(* After a recovery, however many failures interrupted it, every callback ran  *)
(* exactly once, in order, on the communicator that the application gets: "we  *)
(* want to only finish the most recent call" (fenix_callbacks.cpp 93-95).      *)
CallbacksRanOnce == InApp /\ settings.recovery # "ignore" => ran = cbs

(* and every log was synchronised on that communicator. *)
LogsSynced == InApp => ToSet(order) \subseteq ToSet(synced)

(* exactly once: Fenix_Mlog_sync is collective, and nobody else knows that this *)
(* rank begins it again.                                                        *)
SyncedOnce == InApp => synced = order

(* "Automatically repeats failed, logged MPI operations without disrupting      *)
(* normal application control flow" (fenix.h 231): an operation of the active   *)
(* log succeeds although it met failures.                                       *)
Undisturbed ==
  outcome.logged => outcome.how \in {"ok", "unhandled", "aborted"}
UndisturbedIfThrown == outcome.resume = "throw" => Undisturbed
=============================================================================
