------------------------------ MODULE HidCoords ------------------------------
(***************************************************************************)
(* Screen pixels to the 0..32767 range of the absolute pointer:            *)
(* to_hid_x, to_hid_y and clamp_u16 of src/main/tusb/tusb_actuator.c.      *)
(* All of it is unsigned arithmetic, so widths matter.                     *)
(***************************************************************************)
EXTENDS Integers

(* The number of values of a uint16_t. *)
Word == 65536

UInt16 == 0..(Word - 1)

(* #define ABS_PTR_MAX *)
AbsPtrMax == 32767

(* screen_width - 1 stored in a uint16_t: a width of 0 gives 65535. *)
Denom(size) == (size - 1) % Word

(* to_hid_x and to_hid_y: the product fits a uint32_t, the quotient is cut *)
(* to 16 bits; a screen of one pixel maps everything to 0.                 *)
ToHid(p, size) ==
    IF Denom(size) = 0 THEN 0
    ELSE ((p * AbsPtrMax) \div Denom(size)) % Word

(* clamp_u16 *)
Clamp(v, max) == IF v < 0 THEN 0 ELSE IF v > max THEN max ELSE v
=============================================================================
