------------------------------- MODULE Daemon -------------------------------
(***************************************************************************)
(* The daemon of omnixepd.cpp: main() and AppInit(), from the command line *)
(* to the exit code, for the processes started on one data directory.      *)
(*                                                                         *)
(* AppInit is a sequence of steps, each of which can end the process.  A   *)
(* step of this module is one such step, or a group of steps with the same *)
(* way out: what a check looks at is left out, and a check passes, returns *)
(* false or throws.  The functions of init.h are known by their contract:  *)
(* AppInitLockDataDirectory takes the lock of the data directory or fails, *)
(* AppInitMain starts the node or fails.  The request to shut down arrives *)
(* from a signal handler or an RPC thread, at any time.                    *)
(***************************************************************************)
EXTENDS Naturals, Sequences, FiniteSets

CONSTANTS
    Proc,    \* the processes started on the data directory
    NoProc   \* nobody: the lock of the data directory is free

ASSUME NoProc \notin Proc

VARIABLES
    pc,                \* process -> the step of AppInit it is at, "off" when it does not run
    args,              \* process -> its command line: [help, daemon]
    fRequestShutdown,  \* process -> what ShutdownRequested() answers
    fRet,              \* process -> the variable fRet of AppInit
    lock,              \* the process that holds the lock of the data directory
    calls,             \* process -> its calls of AppInitMain, Interrupt and Shutdown, in order
    failure,           \* process -> the step that failed, and whether it threw (history)
    exit               \* process -> how it ended last: the value main() returned, or "killed"

daemonVars == <<pc, args, fRequestShutdown, fRet, lock, calls, failure, exit>>

\* The steps of a daemon that locks the data directory before it forks.
LockFirst ==
    <<"parameters", "help", "config", "setup", "lock", "daemonize", "main">>

\* The steps of AppInit up to AppInitMain, in the order of omnixepd.cpp,
\* which is the order init.h asks for: each function names the one to call
\* before it, and the lock and AppInitMain come "only after daemonization".
Stage ==
    <<"parameters", "help", "config", "setup", "daemonize", "lock", "main">>

\* The step after stage.
Following(stage) ==
    Stage[1 + CHOOSE i \in DOMAIN Stage : Stage[i] = stage]

\* The @note of every function of init.h: "Do not call Shutdown() if this
\* function fails" for AppInitBasicSetup, AppInitParameterInteraction,
\* AppInitSanityChecks and AppInitLockDataDirectory, "Call Shutdown() if
\* this function fails" for AppInitMain.
ShutdownIfFails == [setup |-> FALSE, lock |-> FALSE, main |-> TRUE]

NoFailure == [stage |-> "none", thrown |-> FALSE]

AfterMain == {"wait", "interrupt", "shutdown"}

Call == {"AppInitMain", "Interrupt", "Shutdown"}

DaemonTypeOK ==
    /\ pc \in [Proc -> {Stage[i] : i \in DOMAIN Stage} \cup AfterMain \cup {"off"}]
    /\ args \in [Proc -> [help : BOOLEAN, daemon : BOOLEAN]]
    /\ fRequestShutdown \in [Proc -> BOOLEAN]
    /\ fRet \in [Proc -> BOOLEAN]
    /\ lock \in Proc \cup {NoProc}
    /\ \A p \in Proc : calls[p] \in Seq(Call) /\ Len(calls[p]) <= 3
    /\ failure \in [Proc -> [stage : {Stage[i] : i \in DOMAIN Stage} \cup {"none"},
                             thrown : BOOLEAN]]
    /\ exit \in [Proc -> {"none", "EXIT_SUCCESS", "EXIT_FAILURE", "killed"}]

DaemonInit ==
    /\ pc = [p \in Proc |-> "off"]
    /\ args = [p \in Proc |-> [help |-> FALSE, daemon |-> FALSE]]
    /\ fRequestShutdown = [p \in Proc |-> FALSE]
    /\ fRet = [p \in Proc |-> FALSE]
    /\ lock = NoProc
    /\ calls = [p \in Proc |-> <<>>]
    /\ failure = [p \in Proc |-> NoFailure]
    /\ exit = [p \in Proc |-> "none"]

-----------------------------------------------------------------------------
(* The ways out of a step                                                  *)

\* What a process holds goes with it: the lock of the data directory.
Released(p) == IF lock = p THEN NoProc ELSE lock

\* The step passes: AppInit goes on.
Pass(p) ==
    /\ pc' = [pc EXCEPT ![p] = Following(pc[p])]
    /\ UNCHANGED <<args, fRequestShutdown, fRet, lock, calls, failure, exit>>

\* return from AppInit before the node was started, and from main().
Return(p, fRetIn) ==
    /\ pc' = [pc EXCEPT ![p] = "off"]
    /\ exit' = [exit EXCEPT ![p] = IF fRetIn THEN "EXIT_SUCCESS" ELSE "EXIT_FAILURE"]
    /\ lock' = Released(p)
    /\ UNCHANGED <<args, fRequestShutdown, fRet, calls>>

\* return false, or return InitError(...): the step failed and said so.
ReturnFalse(p) ==
    /\ Return(p, FALSE)
    /\ failure' = [failure EXCEPT ![p] = [stage |-> pc[p], thrown |-> FALSE]]

\* A return false that only leaves the try block.
LeaveTry(p) ==
    /\ pc' = [pc EXCEPT ![p] = "interrupt"]
    /\ failure' = [failure EXCEPT ![p] = [stage |-> pc[p], thrown |-> FALSE]]
    /\ UNCHANGED <<args, fRequestShutdown, fRet, lock, calls, exit>>

\* An exception inside the try block: PrintExceptionContinue, and AppInit
\* goes on behind the block with fRet as it is.
Caught(p) ==
    /\ pc' = [pc EXCEPT ![p] = "interrupt"]
    /\ failure' = [failure EXCEPT ![p] = [stage |-> pc[p], thrown |-> TRUE]]
    /\ UNCHANGED <<args, fRequestShutdown, fRet, lock, calls, exit>>

-----------------------------------------------------------------------------
(* main() and AppInit()                                                    *)

\* int main(argc, argv): a process is started with a command line.
Launch(p, help, daemon) ==
    /\ pc[p] = "off"
    /\ pc' = [pc EXCEPT ![p] = Stage[1]]
    /\ args' = [args EXCEPT ![p] = [help |-> help, daemon |-> daemon]]
    /\ fRequestShutdown' = [fRequestShutdown EXCEPT ![p] = FALSE]
    /\ fRet' = [fRet EXCEPT ![p] = FALSE]
    /\ calls' = [calls EXCEPT ![p] = <<>>]
    /\ failure' = [failure EXCEPT ![p] = NoFailure]
    /\ exit' = [exit EXCEPT ![p] = "none"]
    /\ UNCHANGED lock

\* SetupServerArgs and ParseParameters.
ParseParameters(p) ==
    /\ pc[p] = "parameters"
    /\ Pass(p) \/ ReturnFalse(p)

\* -? and -version are answered before anything else is looked at.
HelpRequested(p) ==
    /\ pc[p] = "help"
    /\ IF args[p].help THEN Return(p, TRUE) /\ UNCHANGED failure ELSE Pass(p)

\* The data directory, the configuration files, the chain and the tokens
\* of the command line.
ReadConfig(p) ==
    /\ pc[p] = "config"
    /\ Pass(p) \/ ReturnFalse(p) \/ Caught(p)

\* Mutation: the checks of the setup set fRet and go on behind the try
\* block in place of returning.
BasicSetupLeavesTry(p) ==
    /\ pc[p] = "setup"
    /\ Pass(p) \/ LeaveTry(p) \/ Caught(p)

\* InitLogging to AppInitSanityChecks: what "can be done before
\* daemonization".
BasicSetup(p) ==
    /\ pc[p] = "setup"
    /\ Pass(p) \/ ReturnFalse(p) \/ Caught(p)

\* -daemon: daemon() forks, the child goes on and the parent ends.
Daemonize(p) ==
    /\ pc[p] = "daemonize"
    /\ \/ ~args[p].daemon /\ Pass(p)
       \/ /\ args[p].daemon
          /\ pc' = [pc EXCEPT ![p] = Following(pc[p])]
          /\ lock' = Released(p)
          /\ UNCHANGED <<args, fRequestShutdown, fRet, calls, failure, exit>>
       \/ args[p].daemon /\ ReturnFalse(p)

\* AppInitLockDataDirectory: "if locking the data directory failed, exit
\* immediately".
LockDataDirectory(p) ==
    /\ pc[p] = "lock"
    /\ \/ /\ lock = NoProc
          /\ lock' = p
          /\ pc' = [pc EXCEPT ![p] = Following(pc[p])]
          /\ UNCHANGED <<args, fRequestShutdown, fRet, calls, failure, exit>>
       \/ lock # NoProc /\ ReturnFalse(p)
       \/ Caught(p)

\* fRet = AppInitMain(node): the node runs, or it does not, or it throws.
AppInitMain(p) ==
    /\ pc[p] = "main"
    /\ calls' = [calls EXCEPT ![p] = Append(@, "AppInitMain")]
    /\ \/ /\ fRet' = [fRet EXCEPT ![p] = TRUE]
          /\ pc' = [pc EXCEPT ![p] = "wait"]
          /\ UNCHANGED failure
       \/ \E thrown \in BOOLEAN :
             /\ fRet' = [fRet EXCEPT ![p] = FALSE]
             /\ pc' = [pc EXCEPT ![p] = "interrupt"]
             /\ failure' = [failure EXCEPT ![p] = [stage |-> "main", thrown |-> thrown]]
    /\ UNCHANGED <<args, fRequestShutdown, lock, exit>>

\* if (!fRet) Interrupt(node);
InterruptAfterFailure(p) ==
    /\ pc[p] = "interrupt"
    /\ calls' = [calls EXCEPT ![p] = Append(@, "Interrupt")]
    /\ pc' = [pc EXCEPT ![p] = "shutdown"]
    /\ UNCHANGED <<args, fRequestShutdown, fRet, lock, failure, exit>>

\* A WaitForShutdown that leaves the call of Interrupt to AppInit, which
\* makes it on both branches.
WaitForShutdownThenInterrupt(p) ==
    /\ pc[p] = "wait"
    /\ fRequestShutdown[p]
    /\ calls' = [calls EXCEPT ![p] = Append(@, "Interrupt")]
    /\ pc' = [pc EXCEPT ![p] = "interrupt"]
    /\ UNCHANGED <<args, fRequestShutdown, fRet, lock, failure, exit>>

\* A WaitForShutdown whose loop runs while shutdown is requested.
WaitForShutdownWhileRequested(p) ==
    /\ pc[p] = "wait"
    /\ ~fRequestShutdown[p]
    /\ calls' = [calls EXCEPT ![p] = Append(@, "Interrupt")]
    /\ pc' = [pc EXCEPT ![p] = "shutdown"]
    /\ UNCHANGED <<args, fRequestShutdown, fRet, lock, failure, exit>>

\* WaitForShutdown(node): the loop sleeps until shutdown is requested, and
\* the threads of the node are interrupted.
WaitForShutdown(p) ==
    /\ pc[p] = "wait"
    /\ fRequestShutdown[p]
    /\ calls' = [calls EXCEPT ![p] = Append(@, "Interrupt")]
    /\ pc' = [pc EXCEPT ![p] = "shutdown"]
    /\ UNCHANGED <<args, fRequestShutdown, fRet, lock, failure, exit>>

\* Shutdown(node); return fRet; and main() returns the exit code.
Shutdown(p) ==
    /\ pc[p] = "shutdown"
    /\ calls' = [calls EXCEPT ![p] = Append(@, "Shutdown")]
    /\ pc' = [pc EXCEPT ![p] = "off"]
    /\ exit' = [exit EXCEPT ![p] = IF fRet[p] THEN "EXIT_SUCCESS" ELSE "EXIT_FAILURE"]
    /\ lock' = Released(p)
    /\ UNCHANGED <<args, fRequestShutdown, fRet, failure>>

-----------------------------------------------------------------------------
(* What happens to a process                                               *)

\* The signal handlers are there once the setup is done; before that a
\* signal is Kill.
HandlesSignals(p) == pc[p] \in {"daemonize", "lock", "main"} \cup AfterMain

\* void StartShutdown(): SIGTERM, SIGINT or the RPC stop.
StartShutdown(p) ==
    /\ HandlesSignals(p)
    /\ ~fRequestShutdown[p]
    /\ fRequestShutdown' = [fRequestShutdown EXCEPT ![p] = TRUE]
    /\ UNCHANGED <<pc, args, fRet, lock, calls, failure, exit>>

\* The process is killed, or the machine stops: nothing of AppInit runs.
Kill(p) ==
    /\ pc[p] # "off"
    /\ pc' = [pc EXCEPT ![p] = "off"]
    /\ exit' = [exit EXCEPT ![p] = "killed"]
    /\ lock' = Released(p)
    /\ UNCHANGED <<args, fRequestShutdown, fRet, calls, failure>>

\* The steps the process takes by itself.
Step(p) ==
    \/ ParseParameters(p)
    \/ HelpRequested(p)
    \/ ReadConfig(p)
    \/ BasicSetup(p)
    \/ Daemonize(p)
    \/ LockDataDirectory(p)
    \/ AppInitMain(p)
    \/ InterruptAfterFailure(p)
    \/ WaitForShutdown(p)
    \/ Shutdown(p)

DaemonNext ==
    \E p \in Proc :
        \/ \E help, daemon \in BOOLEAN : Launch(p, help, daemon)
        \/ Step(p)
        \/ StartShutdown(p)
        \/ Kill(p)

\* A process that is not killed goes on: the init thread runs, and the loop
\* of WaitForShutdown looks at the request every 200 milliseconds.
DaemonFairness == \A p \in Proc : WF_daemonVars(Step(p))

DaemonSpec == DaemonInit /\ [][DaemonNext]_daemonVars /\ DaemonFairness

-----------------------------------------------------------------------------
(* Properties                                                              *)

\* The processes whose node was started and has not ended.
Nodes == {p \in Proc : pc[p] # "off" /\ calls[p] # <<>> /\ Head(calls[p]) = "AppInitMain"}

\* At most one node works on the data directory, however the starts of the
\* processes interleave: AppInitMain runs in the process that holds the
\* lock, until that process ends.  This is about the order of daemon() and
\* AppInitLockDataDirectory ("lock data directory after daemonization"):
\* the lock is the forking process's and is gone with it.
DataDirHasOneNode ==
    /\ Cardinality(Nodes) <= 1
    /\ \A p \in Nodes : lock = p

\* The contract of init.h, for every process that returned from main():
\* when a function of init.h returned false, Shutdown was called exactly
\* if the @note of the function says so (after AppInitMain, behind
\* Interrupt; after none of the functions before it), and no other
\* early return of AppInit calls it either.  The one way to Shutdown
\* without AppInitMain is the exception of a step caught at
\* omnixepd.cpp:151, where AppInit goes on to Interrupt and Shutdown.
\* The exit code says success only for a node that ran, or for -? and
\* -version.
ShutdownFollowsContract ==
    \A p \in Proc :
        exit[p] \in {"EXIT_SUCCESS", "EXIT_FAILURE"} =>
            LET failed == failure[p].stage
                called == "Shutdown" \in {calls[p][i] : i \in DOMAIN calls[p]}
            IN /\ failed \in DOMAIN ShutdownIfFails /\ ~failure[p].thrown =>
                      called = ShutdownIfFails[failed]
               /\ calls[p] = CASE failed = "main" \/ fRet[p] -> <<"AppInitMain", "Interrupt", "Shutdown">>
                               [] failure[p].thrown -> <<"Interrupt", "Shutdown">>
                               [] OTHER -> <<>>
               /\ exit[p] = "EXIT_SUCCESS" <=> fRet[p] \/ (args[p].help /\ failed = "none")

\* A request to shut down ends the process, at whatever step of AppInit it
\* arrives: during AppInitMain, while the node runs, or after the node
\* failed to start.
ShutdownRequestEnds ==
    \A p \in Proc : fRequestShutdown[p] ~> pc[p] = "off"

=============================================================================
