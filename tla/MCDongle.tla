------------------------------ MODULE MCDongle ------------------------------
EXTENDS Dongle

MCCaller == {"one", "other"}

(* What the two threads of an application do: tune, program, read, the rest. *)
MCMenus ==
  {[one |-> {"SetFrequency", "AppReset"}, other |-> {"GetFrequency"}],
   [one |-> {"Write", "Verify"}, other |-> {"Erase", "Write"}],
   [one |-> {"Save"}, other |-> {"Write"}],
   [one |-> {"GetMode", "GetCaps", "BiasTEnable"}, other |-> {"GetDeviceInfo", "AppReset", "BlReset"}]}

(* 48 and 32 bytes, by 16. *)
MCBlockSize == [v1 |-> 3, v2 |-> 2]

MCImages == {[name |-> "a", size |-> 6], [name |-> "b", size |-> 4]}
=============================================================================
