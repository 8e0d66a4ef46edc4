------------------------------ MODULE LuaState ------------------------------
(***************************************************************************)
(* Hand-over of the one Lua interpreter L between the main thread of the   *)
(* modified luajit (main, pmain and dotty in luajit.c) and the HTTP server *)
(* threads (process_req.c), through the word g_L_status and the            *)
(* compare-and-swap loops of lua_state.c.                                  *)
(*                                                                         *)
(* Every server thread (the webserver and, when configured, the            *)
(* out-of-band server) runs the same process_req() and acquires L as       *)
(* owner 2; the main thread acquires it as owner 1.  The servers are       *)
(* started by init_session(), before L exists, and are joined only after   *)
(* L is closed.                                                            *)
(***************************************************************************)
EXTENDS Naturals

CONSTANT Servers   \* the server threads, each serving one request at a time

VARIABLES
  g_L_status,              \* 0 free, 1 owned by the master, 2 by a server
  g_webserver_interested,  \* 0 or 1, a hint shared by all servers
  g_master_interested,     \* 0 or 1, set by SetMaster requests
  g_master_halt,           \* 0 or 1, set by HaltMaster requests
  L,                       \* "none" before lua_open, "open", then "closed"
  mpc,                     \* where the main thread is
  spc                      \* where each server thread is

vars == <<g_L_status, g_webserver_interested, g_master_interested,
          g_master_halt, L, mpc, spc>>

Bit == {0, 1}

MasterPC == {"boot", "script", "halt?", "interest?", "polite?", "nap",
             "acquire", "reading", "running", "release", "leave", "join",
             "done"}

ServerPC == {"idle", "acquire", "redirect", "running", "uninterest",
             "release", "halted"}

\* The words of lua_state.c and the places a thread can be in; release never
\* takes g_L_status below zero.
TypeOK ==
  /\ g_L_status \in {0, 1, 2}
  /\ g_webserver_interested \in Bit
  /\ g_master_interested \in Bit
  /\ g_master_halt \in Bit
  /\ L \in {"none", "open", "closed"}
  /\ mpc \in MasterPC
  /\ spc \in [Servers -> ServerPC]

\* init_globals() gives the words their values and read_configs() may
\* override g_master_interested; init_session() then starts the servers.
Init ==
  /\ g_L_status = 0
  /\ g_webserver_interested = 0
  /\ g_master_interested \in Bit
  /\ g_master_halt = 0
  /\ L = "none"
  /\ mpc = "boot"
  /\ spc = [s \in Servers |-> "idle"]

-----------------------------------------------------------------------------
(* The main thread.                                                        *)

MasterGoto(from, to) == mpc = from /\ mpc' = to

serverVars == <<g_webserver_interested, g_master_interested, g_master_halt,
                spc>>

\* lua_open(), then pmain() begins.
LuaOpen ==
  /\ MasterGoto("boot", "script")
  /\ L' = "open"
  /\ UNCHANGED <<g_L_status, serverVars>>

\* pmain() has run the -e arguments and the script, without acquiring L,
\* and enters the interactive loop, or returns when there is none.
PmainScript ==
  /\ mpc = "script"
  /\ mpc' \in {"halt?", "leave"}
  /\ UNCHANGED <<g_L_status, L, serverVars>>

\* Top of dotty's loop: leave it when asked to halt.
DottyHalt ==
  /\ mpc = "halt?"
  /\ mpc' = IF g_master_halt = 1 THEN "leave" ELSE "interest?"
  /\ UNCHANGED <<g_L_status, L, serverVars>>

\* Not interested: a long nap, and back to the top.
DottyInterest ==
  /\ mpc = "interest?"
  /\ mpc' = IF g_master_interested = 0 THEN "halt?" ELSE "polite?"
  /\ UNCHANGED <<g_L_status, L, serverVars>>

\* Mutant of DottyPolite: the hint is not looked at.
DottyPolite_Rude ==
  /\ MasterGoto("polite?", "acquire")
  /\ UNCHANGED <<g_L_status, L, serverVars>>

\* Interested, but nap for 50 ms when a server wants L.
DottyPolite ==
  /\ mpc = "polite?"
  /\ mpc' = IF g_webserver_interested = 1 THEN "nap" ELSE "acquire"
  /\ UNCHANGED <<g_L_status, L, serverVars>>

\* The nap is longer than the 10 ms a spinning server sleeps between two
\* attempts: it does not end while a server's attempt would succeed.
DottyNap ==
  /\ MasterGoto("nap", "acquire")
  /\ ~(g_L_status = 0 /\ \E s \in Servers : spc[s] = "acquire")
  /\ UNCHANGED <<g_L_status, L, serverVars>>

\* acquire_lua_state(1): the attempt that succeeds (the others change nothing).
AcquireMaster ==
  /\ MasterGoto("acquire", "reading")
  /\ g_L_status = 0
  /\ g_L_status' = 1
  /\ UNCHANGED <<L, serverVars>>

\* loadline() blocks on the console with L held; at end of input dotty
\* breaks out of its loop, L still held.
Loadline ==
  /\ mpc = "reading"
  /\ mpc' \in {"running", "leave"}
  /\ UNCHANGED <<g_L_status, L, serverVars>>

\* docall() and the printing of its results.
Docall ==
  /\ MasterGoto("running", "release")
  /\ UNCHANGED <<g_L_status, L, serverVars>>

\* Mutant of ReleaseMaster: the word of the server is written.
ReleaseMaster_WrongWord ==
  /\ MasterGoto("release", "halt?")
  /\ g_L_status' = g_L_status - 2
  /\ UNCHANGED <<L, serverVars>>

\* release_lua_state(1): dotty breaks when the word is not 1.
ReleaseMaster ==
  /\ mpc = "release"
  /\ g_L_status' = IF g_L_status = 1 THEN 0 ELSE g_L_status
  /\ mpc' = IF g_L_status = 1 THEN "halt?" ELSE "leave"
  /\ UNCHANGED <<L, serverVars>>

\* main() after pmain(): lua_close(), then wait for the servers.
LuaClose ==
  /\ MasterGoto("leave", "join")
  /\ L' = "closed"
  /\ UNCHANGED <<g_L_status, serverVars>>

JoinServers ==
  /\ MasterGoto("join", "done")
  /\ \A s \in Servers : spc[s] = "halted"
  /\ UNCHANGED <<g_L_status, L, serverVars>>

Master ==
  \/ LuaOpen \/ PmainScript \/ DottyHalt \/ DottyInterest \/ DottyPolite
  \/ DottyNap \/ AcquireMaster \/ Loadline \/ Docall \/ ReleaseMaster
  \/ LuaClose \/ JoinServers

-----------------------------------------------------------------------------
(* A server thread: process_req() for the requests that change state.      *)

masterVars == <<L, mpc>>

ServerGoto(s, from, to) == spc[s] = from /\ spc' = [spc EXCEPT ![s] = to]

\* A Lua request: raise the hint, then acquire_lua_state(2).
LuaRequest(s) ==
  /\ ServerGoto(s, "idle", "acquire")
  /\ g_webserver_interested' = 1
  /\ UNCHANGED <<g_L_status, g_master_interested, g_master_halt, masterVars>>

\* Mutant of AcquireServer: a store instead of the compare-and-swap.
AcquireServer_Store(s) ==
  /\ ServerGoto(s, "acquire", "redirect")
  /\ g_L_status' = 2
  /\ UNCHANGED <<g_webserver_interested, g_master_interested, g_master_halt,
                 masterVars>>

AcquireServer(s) ==
  /\ ServerGoto(s, "acquire", "redirect")
  /\ g_L_status = 0
  /\ g_L_status' = 2
  /\ UNCHANGED <<g_webserver_interested, g_master_interested, g_master_halt,
                 masterVars>>

\* stdout and stderr are redirected to temporary files.  When mkstemp fails
\* process_req() returns at once: L stays owned and the hint stays raised.
Redirect(s) ==
  /\ spc[s] = "redirect"
  /\ \E to \in {"running", "idle"} : spc' = [spc EXCEPT ![s] = to]
  /\ UNCHANGED <<g_L_status, g_webserver_interested, g_master_interested,
                 g_master_halt, masterVars>>

\* luaL_dostring() and the response.
Dostring(s) ==
  /\ ServerGoto(s, "running", "uninterest")
  /\ UNCHANGED <<g_L_status, g_webserver_interested, g_master_interested,
                 g_master_halt, masterVars>>

DropInterest(s) ==
  /\ ServerGoto(s, "uninterest", "release")
  /\ g_webserver_interested' = 0
  /\ UNCHANGED <<g_L_status, g_master_interested, g_master_halt, masterVars>>

\* release_lua_state(2); process_req() overwrites its status, so a failure
\* goes unnoticed.
ReleaseServer(s) ==
  /\ ServerGoto(s, "release", "idle")
  /\ g_L_status' = IF g_L_status = 2 THEN 0 ELSE g_L_status
  /\ UNCHANGED <<g_webserver_interested, g_master_interested, g_master_halt,
                 masterVars>>

SetMaster(s) ==
  /\ spc[s] = "idle"
  /\ g_master_interested' \in Bit
  /\ UNCHANGED <<g_L_status, g_webserver_interested, g_master_halt,
                 masterVars, spc>>

HaltMaster(s) ==
  /\ spc[s] = "idle"
  /\ g_master_halt' = 1
  /\ UNCHANGED <<g_L_status, g_webserver_interested, g_master_interested,
                 masterVars, spc>>

\* Halt only answers OK here; the server's own loop then ends.
Halt(s) ==
  /\ ServerGoto(s, "idle", "halted")
  /\ UNCHANGED <<g_L_status, g_webserver_interested, g_master_interested,
                 g_master_halt, masterVars>>

LuaSteps(s) ==
  AcquireServer(s) \/ Redirect(s) \/ Dostring(s) \/ DropInterest(s)
    \/ ReleaseServer(s)

Server(s) ==
  LuaRequest(s) \/ LuaSteps(s) \/ SetMaster(s) \/ HaltMaster(s) \/ Halt(s)

Next == Master \/ \E s \in Servers : Server(s)

Spec == Init /\ [][Next]_vars

\* The operating system runs every thread that can run.  Nothing is assumed
\* of the script, of the console (Loadline) or of the arrival of requests.
Fairness ==
  /\ WF_vars(Master /\ mpc \notin {"script", "reading"})
  /\ \A s \in Servers : WF_vars(LuaSteps(s))

FairSpec == Spec /\ Fairness

-----------------------------------------------------------------------------
(* Properties.                                                             *)

MasterOwns == mpc \in {"reading", "running", "release"}

ServerOwns(s) == spc[s] \in {"redirect", "running", "uninterest", "release"}

\* Between a successful acquire_lua_state() and the matching release the
\* word g_L_status names the thread's kind, and no second thread is between
\* the two: two servers, which both write 2, never own L together, and
\* neither release_lua_state() call can fail its compare-and-swap.
OwnersExclude ==
  /\ MasterOwns => g_L_status = 1 /\ \A s \in Servers : ~ServerOwns(s)
  /\ \A s \in Servers : ServerOwns(s) => g_L_status = 2
  /\ \A s, t \in Servers : ServerOwns(s) /\ ServerOwns(t) => s = t

\* L was acquired and its owner returned without releasing it: dotty() at
\* end of input, process_req() when mkstemp fails.
Leaked ==
  \/ g_L_status = 1 /\ ~MasterOwns
  \/ g_L_status = 2 /\ \A s \in Servers : ~ServerOwns(s)

\* The 50 ms nap of dotty() does its work for the servers together: as long
\* as the console does not keep the master waiting for a line forever, when
\* servers are waiting in acquire_lua_state(2) and the hint they share is
\* raised, one of them gets L, unless L was leaked.  It is not promised to
\* each of them: the first to be done lowers the hint for all (process_req.c),
\* and one that goes on waiting is then passed over by dotty().
ServersNotStarved ==
  []<>(mpc # "reading") =>
    (g_webserver_interested = 1 /\ \E s \in Servers : spc[s] = "acquire")
      ~> ((\E s \in Servers : ServerOwns(s)) \/ Leaked)
=============================================================================
