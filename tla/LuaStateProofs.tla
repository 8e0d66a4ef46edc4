--------------------------- MODULE LuaStateProofs ---------------------------
(***************************************************************************)
(* The hand-over of L excludes a second owner, for any set of servers.     *)
(***************************************************************************)
EXTENDS LuaState, TLAPS

\* The words and program counters of lua_state.c, luajit.c and process_req.c
\* keep their types.
THEOREM LuaStateTypeOK == Spec => []TypeOK
<1>1. Init => TypeOK
  BY DEF Init, TypeOK, Bit, MasterPC, ServerPC
<1>2. TypeOK /\ [Next]_vars => TypeOK'
  <2> SUFFICES ASSUME TypeOK, [Next]_vars
               PROVE  TypeOK'
    OBVIOUS
  <2> USE DEF TypeOK, Bit, MasterPC, ServerPC, MasterGoto, ServerGoto,
              serverVars, masterVars
  <2>1. CASE Master
    BY <2>1 DEF Master, LuaOpen, PmainScript, DottyHalt, DottyInterest,
       DottyPolite, DottyNap, AcquireMaster, Loadline, Docall, ReleaseMaster,
       LuaClose, JoinServers
  <2>2. ASSUME NEW s \in Servers, Server(s)
        PROVE  TypeOK'
    BY <2>2 DEF Server, LuaSteps, LuaRequest, AcquireServer, Redirect,
       Dostring, DropInterest, ReleaseServer, SetMaster, HaltMaster, Halt
  <2>3. CASE UNCHANGED vars
    BY <2>3 DEF vars
  <2> QED
    BY <2>1, <2>2, <2>3 DEF Next
<1> QED
  BY <1>1, <1>2, PTL DEF Spec

\* At most one thread is between a successful acquire_lua_state() and its
\* release, g_L_status names it, and so no release fails: OwnersExclude is
\* inductive given the types.
THEOREM LuaStateOwnersExclude == Spec => []OwnersExclude
<1>1. Init => OwnersExclude
  BY DEF Init, OwnersExclude, MasterOwns, ServerOwns
<1>2. TypeOK /\ OwnersExclude /\ [Next]_vars => OwnersExclude'
  <2> SUFFICES ASSUME TypeOK, OwnersExclude, [Next]_vars
               PROVE  OwnersExclude'
    OBVIOUS
  <2> USE DEF TypeOK, OwnersExclude, MasterOwns, ServerOwns, MasterGoto,
              ServerGoto, serverVars, masterVars
  <2>1. CASE AcquireMaster
    BY <2>1 DEF AcquireMaster
  <2>2. CASE ReleaseMaster
    BY <2>2 DEF ReleaseMaster
  <2>3. CASE Master /\ ~AcquireMaster /\ ~ReleaseMaster
    BY <2>3 DEF Master, LuaOpen, PmainScript, DottyHalt, DottyInterest,
       DottyPolite, DottyNap, Loadline, Docall, LuaClose, JoinServers
  <2>4. ASSUME NEW s \in Servers, AcquireServer(s)
        PROVE  OwnersExclude'
    BY <2>4 DEF AcquireServer
  <2>5. ASSUME NEW s \in Servers, ReleaseServer(s)
        PROVE  OwnersExclude'
    BY <2>5 DEF ReleaseServer
  <2>6. ASSUME NEW s \in Servers,
               Redirect(s) \/ Dostring(s) \/ DropInterest(s)
        PROVE  OwnersExclude'
    BY <2>6 DEF Redirect, Dostring, DropInterest
  <2>7. ASSUME NEW s \in Servers,
               LuaRequest(s) \/ SetMaster(s) \/ HaltMaster(s) \/ Halt(s)
        PROVE  OwnersExclude'
    BY <2>7 DEF LuaRequest, SetMaster, HaltMaster, Halt
  <2>8. CASE UNCHANGED vars
    BY <2>8 DEF vars
  <2> QED
    BY <2>1, <2>2, <2>3, <2>4, <2>5, <2>6, <2>7, <2>8
       DEF Next, Server, LuaSteps
<1> QED
  BY <1>1, <1>2, LuaStateTypeOK, PTL DEF Spec
=============================================================================
