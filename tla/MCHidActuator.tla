---------------------------- MODULE MCHidActuator ----------------------------
(***************************************************************************)
(* Instances of HidActuator for TLC.                                       *)
(***************************************************************************)
EXTENDS HidActuator

Size32 == [w |-> 3, h |-> 2]

KeyCmds(K, M) == [type : {"KEY_DOWN", "KEY_UP"}, key : K, mask : M]
ButtonCmds(B) == [type : {"MOUSE_DOWN", "MOUSE_UP"}, id : B]
WheelCmds(D) == [type : {"MOUSE_WHEEL"}, dy : D]
EnterCmds(M, L) == [type : {"ENTER"}, x : {0}, y : {0}, mask : M, lock : L]
Plain(t) == {[type |-> t]}

(* A session that is opened and entered. *)
Opening == Plain("CONNECTED") \cup EnterCmds({{}}, {FALSE})

(* Keys and a button, the pointer entering (with a modifier or with Caps   *)
(* Lock) and leaving.                                                      *)
AllInput == Plain("CONNECTED") \cup EnterCmds({ModifierKeys}, {FALSE})
            \cup EnterCmds({{}}, {TRUE}) \cup Plain("LEAVE")
            \cup KeyCmds(Keys, {{}}) \cup ButtonCmds({1})

(* Every kind of command. *)
AllKinds == Opening \cup Plain("LEAVE") \cup Plain("JIGGLE") \cup ButtonCmds({1})
            \cup WheelCmds({1, 5}) \cup KeyCmds(Keys, {{}})
            \cup [type : {"SET_SCREEN_SIZE"}, w : {2}, h : {2}] \cup Plain("SET_SCALING")

(* One kind of report, or both, to watch the bus. *)
OneKey == Opening \cup KeyCmds(Keys, {{}})
OneKeyOneButton == Opening \cup KeyCmds(Keys, {{}}) \cup ButtonCmds({1})

(* A button and the pointer leaving with it. *)
ButtonAndLeave == Opening \cup Plain("LEAVE") \cup ButtonCmds({1})

NoMoves == {}
OneMove == [kind : {"abs"}, x : {1}, y : {1}]
SomeMoves == OneMove \cup [kind : {"rel"}, x : {-1, 1}, y : {0}]
=============================================================================
