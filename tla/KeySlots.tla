------------------------------ MODULE KeySlots ------------------------------
(***************************************************************************)
(* The pressed-key tracker of the HID task (src/main/tusb/tusb_actuator.c):*)
(* the array pressed_keys[HID_MAX_KEYS] and its fill count key_count.  The *)
(* array is only ever read in two ways: the first key_count entries are    *)
(* searched, and ALL entries are copied into the keyboard report, so an    *)
(* entry beyond key_count that is not zero would be a key the host sees    *)
(* and the tracker has forgotten.                                          *)
(***************************************************************************)
EXTENDS Integers

CONSTANTS
    Keys,      \* the key codes the server uses, none of them 0
    NoKey,     \* 0, the free slot of pressed_keys
    MaxKeys    \* HID_MAX_KEYS, the length of pressed_keys

ASSUME KeySlotsAssumption ==
    /\ NoKey \notin Keys
    /\ MaxKeys \in Nat \ {0}

Slot == 1..MaxKeys

(* All trackers, whether or not the two fields agree. *)
KeyTracker == [count : 0..MaxKeys, slot : [Slot -> Keys \cup {NoKey}]]

(* key_count = 0; memset(pressed_keys, 0): LEAVE, DISCONNECTED and a       *)
(* release that finds nothing.                                             *)
Cleared == [count |-> 0, slot |-> [i \in Slot |-> NoKey]]

(* The slots the searches look at. *)
Used(t) == 1..t.count

Holds(t, k) == \E i \in Used(t) : t.slot[i] = k

(* ACT_CMD_KEY_DOWN: a key that is already there, or a seventh key, leaves *)
(* the tracker as it is.                                                   *)
Press(t, k) ==
    IF t.count < MaxKeys /\ ~Holds(t, k)
    THEN [count |-> t.count + 1, slot |-> [t.slot EXCEPT ![t.count + 1] = k]]
    ELSE t

(* Mutant of RemoveAt: the last slot is not zeroed. *)
RemoveAtKeepsLast(t, i) ==
    [count |-> t.count - 1, slot |-> [t.slot EXCEPT ![i] = t.slot[t.count]]]

(* ACT_CMD_KEY_UP on the slot the search stops at: the last entry moves    *)
(* into the hole and its old slot is zeroed.                               *)
RemoveAt(t, i) ==
    [count |-> t.count - 1,
     slot  |-> [[t.slot EXCEPT ![i] = t.slot[t.count]] EXCEPT ![t.count] = NoKey]]

FirstSlotOf(t, k) ==
    CHOOSE i \in Used(t) :
        t.slot[i] = k /\ \A j \in Used(t) : t.slot[j] = k => i <= j

(* ACT_CMD_KEY_UP: a key that is not tracked clears every key. *)
Release(t, k) ==
    IF Holds(t, k) THEN RemoveAt(t, FirstSlotOf(t, k)) ELSE Cleared

(* What a report built from the tracker shows the host: every slot, used   *)
(* or not.                                                                 *)
Reported(t) == {t.slot[i] : i \in Slot} \ {NoKey}

(* The tracker is consistent: the used slots hold distinct keys and the    *)
(* others are zero, so Reported and Holds speak of the same keys.          *)
WellFormed(t) ==
    /\ t \in KeyTracker
    /\ \A i \in Used(t) : t.slot[i] \in Keys
    /\ \A i \in Slot \ Used(t) : t.slot[i] = NoKey
    /\ \A i, j \in Used(t) : t.slot[i] = t.slot[j] => i = j
=============================================================================
