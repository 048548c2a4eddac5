----------------------------- MODULE MCPiBridge -----------------------------
(***************************************************************************)
(* Instances of PiBridge for TLC: the frames the Pi may send in each run.  *)
(***************************************************************************)
EXTENDS PiBridge

Plain(types) == [type : types]
Arms(modes) == [type : {"ARM"}, nonce : {1, 2}, mode : modes]
CmdVels(targets, modes, timeouts) ==
  [type : {"CMD_VEL"}, target : targets, mode : modes, timeout : timeouts]
Relays == [type : {"RELAY"}, value : BOOLEAN]
SetLimitsFrames == [type : {"SET_LIMITS"}, timeout : {1}]

\* Every kind of frame that gives or takes back motion, authority and relays:
\* full speed at once, with any timeout and in the wrong mode; both latches and
\* their resets.
AllFrames ==
  Plain({"HELLO", "BAD_HELLO", "HEARTBEAT", "STOP", "DISARM", "ESTOP",
         "RESET_ESTOP", "RESET_FAULT"})
    \cup Relays \cup Arms({"MANUAL"})
    \cup CmdVels({3}, {"MANUAL"}, {0, HardCmdTimeout + 1})
    \cup CmdVels({3}, {"AUTO"}, {0})

\* Drive, within the limits the Pi sets, with a Pi that may go on with
\* heartbeats and stops only.
LiveFrames ==
  Plain({"HELLO", "HEARTBEAT", "STOP"}) \cup SetLimitsFrames
    \cup Arms({"MANUAL"}) \cup CmdVels({1}, {"MANUAL"}, {HardCmdTimeout})

=============================================================================
