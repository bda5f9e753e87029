--------------------------- MODULE ViscaCommands ---------------------------
(***************************************************************************)
(* The packets of the 4K camera:                                           *)
(*   src/control/visca_camera/visca_camera.c                               *)
(* A setting is sent as a category, a code, sometimes a selector, and the  *)
(* value in a layout of its own: a switch, a byte, or nibbles behind zero  *)
(* bytes. The inquiry of the setting has a layout too, written elsewhere.  *)
(*                                                                         *)
(* The level of the extended auto ICR is left out, the one inquiry whose   *)
(* answer has a byte more than its command, and so are the plain blocks of *)
(* data (version, temperature, block), which nothing sets.                 *)
(***************************************************************************)
EXTENDS Naturals, Sequences, SequencesExt, FiniteSets, TLC
-----------------------------------------------------------------------------
(***************************************************************************)
(* Layouts. Setting and query of a layout are the command and the inquiry. *)
(***************************************************************************)
Setting(key, pad, n, base, values) ==
  [key |-> key, switch |-> FALSE, pad |-> pad, n |-> n, base |-> base, values |-> values]

Switch(key, on, off) ==
  [key |-> key, switch |-> TRUE, on |-> on, off |-> off, values |-> {0, 1}]

Enum(key, values) == Setting(key, 0, 1, 256, values)
Byte(key, hi) == Enum(key, {0, hi})
Nibbles(key, pad, n, hi) == Setting(key, pad, n, 16, {0, hi})

visca_command_switch(category, code) == Switch(<<category, code>>, 2, 3)
visca_command_direct8(code, hi) == Nibbles(<<4, code>>, 2, 2, hi)
visca_command_direct16(code, hi) == Nibbles(<<4, code>>, 0, 4, hi)
visca_set_aperture_parameter(selector, values) == Enum(<<5, \H42, selector>>, values)

visca_query_bool(key, on, off) == Switch(key, on, off)
visca_query_nibble8(key, offset) == Nibbles(key, offset, 2, 255)
visca_query_nibble16(key, offset) == Nibbles(key, offset, 4, 65535)
visca_get_aperture_parameter(selector) == Byte(<<5, \H42, selector>>, 15)

\* A mutant: the low nibble first.
DigitsReversed(v, n, base) == [i \in 1..n |-> (v \div base^(i - 1)) % base]

\* visca_encode_nibble8, 12 and 16; a byte is a digit to the base 256.
Digits(v, n, base) == [i \in 1..n |-> (v \div base^(n - i)) % base]

\* visca_decode_nibble8, 12 and 16.
Number(d, base) == FoldLeft(LAMBDA acc, x : acc * base + x, 0, d)

\* The bytes of a command after its key.
Encode(row, v) ==
  IF row.switch THEN <<IF v = 1 THEN row.on ELSE row.off>>
  ELSE [i \in 1..row.pad |-> 0] \o Digits(v, row.n, row.base)

Refused == "VISCA_ERR_PROTOCOL"

\* What the inquiry makes of the answer: too short or an unknown byte is refused.
visca_query_data(row, d) ==
  IF row.switch
  THEN CASE d[1] = row.on -> 1
         [] d[1] = row.off -> 0
         [] OTHER -> Refused
  ELSE IF Len(d) < row.pad + row.n THEN Refused
  ELSE Number(SubSeq(d, row.pad + 1, row.pad + row.n), row.base)
-----------------------------------------------------------------------------
(***************************************************************************)
(* The commands that set something.                                        *)
(***************************************************************************)
ZoomCommands ==
  "power" :> visca_command_switch(4, 0) @@
  "id" :> visca_command_direct16(\H22, 65535) @@
  "zoom_position" :> visca_command_direct16(\H47, \H7ac0) @@
  "dzoom_mode" :> Enum(<<4, 6>>, {2, 3, 4}) @@
  "dzoom_combine" :> Switch(<<4, \H36>>, 0, 1) @@
  "dzoom_position" :> Nibbles(<<4, \H46>>, 2, 2, \Heb) @@
  "continuous_zoom_reply" :> visca_command_switch(4, \H69) @@
  "zoom_reply_interval" :> Nibbles(<<4, \H6a>>, 2, 2, 255)

FocusCommands ==
  "focus_mode" :> Switch(<<4, \H38>>, 2, 3) @@
  "focus_position" :> visca_command_direct16(\H48, \Hf000) @@
  "focus_near_limit" :> Setting(<<4, \H28>>, 0, 4, 16, {\H1000, \Hf000}) @@
  "af_mode" :> Byte(<<4, \H57>>, 2) @@
  "af_time" :> Nibbles(<<4, \H27>>, 0, 4, 65535) @@
  "af_sensitivity" :> visca_command_switch(4, \H58) @@
  "spot_focus" :> visca_command_switch(5, 8) @@
  "spot_focus_position" :> Nibbles(<<5, \H68>>, 0, 4, \H0f0f) @@
  "ir_correction" :> Byte(<<4, \H11>>, 1) @@
  "continuous_focus_reply" :> visca_command_switch(4, \H16) @@
  "focus_reply_interval" :> Nibbles(<<4, \H1a>>, 2, 2, 255)

ColourCommands ==
  "wb_mode" :> Byte(<<4, \H35>>, 9) @@
  "r_gain" :> visca_command_direct8(\H43, 255) @@
  "b_gain" :> visca_command_direct8(\H44, 255)

ExposureCommands ==
  "ae_mode" :> Enum(<<4, \H39>>, {0, 3, \Ha, \Hb, \Hd, \He}) @@
  "low_light_basis" :> visca_command_switch(5, \H39) @@
  "low_light_basis_position" :> Byte(<<5, \H49>>, 15) @@
  "shutter" :> visca_command_direct8(\H4a, 255) @@
  "max_shutter_limit" :> Nibbles(<<5, \H2a, 0>>, 0, 2, 255) @@
  "min_shutter_limit" :> Nibbles(<<5, \H2a, 1>>, 0, 2, 255) @@
  "slow_shutter" :> visca_command_switch(4, \H5a) @@
  "slow_shutter_limit" :> Nibbles(<<5, \H5a>>, 0, 2, 255) @@
  "iris" :> visca_command_direct8(\H4b, \H19) @@
  "gain" :> visca_command_direct8(\H4c, \H11) @@
  "gain_limit" :> Byte(<<4, \H2c>>, \Hd) @@
  "gain_point" :> Nibbles(<<5, \H4c>>, 0, 2, 255) @@
  "gain_point_enabled" :> Switch(<<5, \Hc>>, 2, 3) @@
  "bright" :> visca_command_direct8(\H4d, \H29) @@
  "exposure_compensation_enabled" :> visca_command_switch(4, \H3e) @@
  "exposure_compensation" :> visca_command_direct8(\H4e, \He)

PictureCommands ==
  "backlight" :> visca_command_switch(4, \H33) @@
  "spot_ae" :> visca_command_switch(4, \H59) @@
  "spot_ae_position" :> Nibbles(<<4, \H29>>, 0, 4, \H0f0f) @@
  "ae_response" :> Enum(<<4, \H5d>>, {1, \H30}) @@
  "ve" :> Switch(<<4, \H3d>>, 6, 3) @@
  "ve_parameters" :> Nibbles(<<4, \H2d>>, 1, 3, \H632) @@
  "defog" :> Setting(<<4, \H37>>, 0, 2, 256, {\H200, \H203, \H300}) @@
  "aperture_level" :> visca_command_direct8(\H42, 15) @@
  "aperture_mode" :> visca_set_aperture_parameter(1, {0, 1}) @@
  "aperture_bandwidth" :> visca_set_aperture_parameter(2, {0, 4}) @@
  "aperture_crispening" :> visca_set_aperture_parameter(3, {0, 7}) @@
  "aperture_hv_balance" :> visca_set_aperture_parameter(4, {5, 9}) @@
  "aperture_bw_balance" :> visca_set_aperture_parameter(5, {0, 4}) @@
  "aperture_limit" :> visca_set_aperture_parameter(6, {0, 7}) @@
  "aperture_highlight_detail" :> visca_set_aperture_parameter(7, {0, 4}) @@
  "aperture_super_low" :> visca_set_aperture_parameter(8, {0, 7})

DetailCommands ==
  "high_resolution" :> visca_command_switch(4, \H52) @@
  "noise_reduction" :> Enum(<<4, \H53>>, {0, 5, \H7f}) @@
  "noise_reduction_2d_3d" :> Setting(<<5, \H53>>, 0, 2, 256, {0, \H505}) @@
  "stabilizer" :> visca_command_switch(4, \H34) @@
  "gamma" :> Byte(<<4, \H5b>>, 2) @@
  "gamma_pattern" :> Setting(<<5, \H5b>>, 0, 3, 16, {1, \H200}) @@
  "gamma_offset" :> Nibbles(<<4, \H1e>>, 3, 3, \H140) @@
  "high_sensitivity" :> visca_command_switch(4, \H5e) @@
  "lr_reverse" :> visca_command_switch(4, \H61) @@
  "freeze" :> visca_command_switch(4, \H62) @@
  "black_white" :> Switch(<<4, \H63>>, 4, 0) @@
  "e_flip" :> visca_command_switch(4, \H66) @@
  "icr" :> visca_command_switch(4, 1) @@
  "auto_icr" :> visca_command_switch(4, \H51) @@
  "auto_icr_threshold" :> Nibbles(<<4, \H21>>, 2, 2, 255) @@
  "auto_icr_alarm" :> visca_command_switch(4, \H31)

UserCommands ==
  "user_memory" :> Nibbles(<<4, \H23, 7>>, 0, 4, 65535) @@
  "display" :> visca_command_switch(4, \H15) @@
  "mute" :> visca_command_switch(4, \H75) @@
  "privacy_table" :> Byte(<<5, \H70>>, 1) @@
  "privacy_display" :> Setting(<<4, \H77>>, 1, 3, 256, {0, \Hffffff}) @@
  "privacy_pan_tilt" :> Nibbles(<<4, \H79>>, 0, 6, \Hffffff) @@
  "privacy_ptz" :> Nibbles(<<4, \H7b, 23>>, 3, 7, \Hfff7ac0) @@
  "register" :> Nibbles(<<4, \H24, \H7f>>, 0, 2, 255)

ExtendedCommands ==
  "hlc" :> Setting(<<4, \H14>>, 0, 2, 256, {0, \H30f}) @@
  "color_bar" :> Byte(<<\H7e, 4, \H7d>>, 3) @@
  "ept" :> Switch(<<\H7e, 6, 0>>, 2, 3) @@
  "ept_position" :> Nibbles(<<\H7e, 6, \H20>>, 6, 4, 65535)

Commands ==
  ZoomCommands @@ FocusCommands @@ ColourCommands @@ ExposureCommands @@
  PictureCommands @@ DetailCommands @@ UserCommands @@ ExtendedCommands
-----------------------------------------------------------------------------
(***************************************************************************)
(* The inquiries.                                                          *)
(***************************************************************************)
ZoomInquiries ==
  "power" :> visca_query_bool(<<4, 0>>, 2, 3) @@
  "zoom_position" :> visca_query_nibble16(<<4, \H47>>, 0) @@
  "dzoom_mode" :> Byte(<<4, 6>>, 4) @@
  "dzoom_combine" :> visca_query_bool(<<4, \H36>>, 0, 1) @@
  "dzoom_position" :> visca_query_nibble8(<<4, \H46>>, 2)

FocusInquiries ==
  "focus_mode" :> visca_query_bool(<<4, \H38>>, 2, 3) @@
  "focus_position" :> visca_query_nibble16(<<4, \H48>>, 0) @@
  "focus_near_limit" :> visca_query_nibble16(<<4, \H28>>, 0) @@
  "spot_focus" :> visca_query_bool(<<5, 8>>, 2, 3) @@
  "spot_focus_position" :> Nibbles(<<5, \H68>>, 0, 4, 65535) @@
  "af_sensitivity" :> visca_query_bool(<<4, \H58>>, 2, 3) @@
  "af_mode" :> Byte(<<4, \H57>>, 2) @@
  "af_time" :> Nibbles(<<4, \H27>>, 0, 4, 65535)

ExposureInquiries ==
  "low_light_basis" :> visca_query_bool(<<5, \H39>>, 2, 3) @@
  "low_light_basis_position" :> Byte(<<5, \H49>>, 15) @@
  "ir_correction" :> Byte(<<4, \H11>>, 1) @@
  "wb_mode" :> Byte(<<4, \H35>>, 9) @@
  "r_gain" :> visca_query_nibble8(<<4, \H43>>, 2) @@
  "b_gain" :> visca_query_nibble8(<<4, \H44>>, 2) @@
  "ae_mode" :> Byte(<<4, \H39>>, \He) @@
  "shutter" :> visca_query_nibble8(<<4, \H4a>>, 2) @@
  "max_shutter_limit" :> visca_query_nibble8(<<5, \H2a, 0>>, 0) @@
  "min_shutter_limit" :> visca_query_nibble8(<<5, \H2a, 1>>, 0) @@
  "slow_shutter" :> visca_query_bool(<<4, \H5a>>, 2, 3) @@
  "slow_shutter_limit" :> visca_query_nibble8(<<5, \H5a>>, 0)

GainInquiries ==
  "iris" :> visca_query_nibble8(<<4, \H4b>>, 2) @@
  "gain" :> visca_query_nibble8(<<4, \H4c>>, 2) @@
  "gain_limit" :> Byte(<<4, \H2c>>, 15) @@
  "gain_point" :> visca_query_nibble8(<<5, \H4c>>, 0) @@
  "gain_point_enabled" :> visca_query_bool(<<5, \Hc>>, 2, 3) @@
  "bright" :> visca_query_nibble8(<<4, \H4d>>, 2) @@
  "exposure_compensation_enabled" :> visca_query_bool(<<4, \H3e>>, 2, 3) @@
  "exposure_compensation" :> visca_query_nibble8(<<4, \H4e>>, 2) @@
  "backlight" :> visca_query_bool(<<4, \H33>>, 2, 3) @@
  "spot_ae" :> visca_query_bool(<<4, \H59>>, 2, 3) @@
  "spot_ae_position" :> Nibbles(<<4, \H29>>, 0, 4, 65535) @@
  "ve" :> visca_query_bool(<<4, \H3d>>, 6, 3) @@
  "ve_parameters" :> Nibbles(<<4, \H2d>>, 1, 3, \Hfff)

PictureInquiries ==
  "ae_response" :> Byte(<<4, \H5d>>, 255) @@
  "defog" :> Setting(<<4, \H37>>, 0, 2, 256, {}) @@
  "aperture_level" :> visca_query_nibble8(<<4, \H42>>, 2) @@
  "aperture_mode" :> visca_get_aperture_parameter(1) @@
  "aperture_bandwidth" :> visca_get_aperture_parameter(2) @@
  "aperture_crispening" :> visca_get_aperture_parameter(3) @@
  "aperture_hv_balance" :> visca_get_aperture_parameter(4) @@
  "aperture_bw_balance" :> visca_get_aperture_parameter(5) @@
  "aperture_limit" :> visca_get_aperture_parameter(6) @@
  "aperture_highlight_detail" :> visca_get_aperture_parameter(7) @@
  "aperture_super_low" :> visca_get_aperture_parameter(8) @@
  "high_resolution" :> visca_query_bool(<<4, \H52>>, 2, 3) @@
  "noise_reduction" :> Byte(<<4, \H53>>, 255) @@
  "noise_reduction_2d_3d" :> Setting(<<5, \H53>>, 0, 2, 256, {})

DetailInquiries ==
  "stabilizer" :> visca_query_bool(<<4, \H34>>, 2, 3) @@
  "gamma" :> Byte(<<4, \H5b>>, 2) @@
  "gamma_pattern" :> Nibbles(<<5, \H5b>>, 0, 3, \Hfff) @@
  "gamma_offset" :> Nibbles(<<4, \H1e>>, 3, 3, \H1ff) @@
  "high_sensitivity" :> visca_query_bool(<<4, \H5e>>, 2, 3) @@
  "lr_reverse" :> visca_query_bool(<<4, \H61>>, 2, 3) @@
  "freeze" :> visca_query_bool(<<4, \H62>>, 2, 3) @@
  "black_white" :> visca_query_bool(<<4, \H63>>, 4, 0) @@
  "e_flip" :> visca_query_bool(<<4, \H66>>, 2, 3) @@
  "icr" :> visca_query_bool(<<4, 1>>, 2, 3) @@
  "auto_icr" :> visca_query_bool(<<4, \H51>>, 2, 3) @@
  "auto_icr_threshold" :> visca_query_nibble8(<<4, \H21>>, 2) @@
  "auto_icr_alarm" :> visca_query_bool(<<4, \H31>>, 2, 3)

UserInquiries ==
  "user_memory" :> visca_query_nibble16(<<4, \H23, 7>>, 0) @@
  "display" :> visca_query_bool(<<4, \H15>>, 2, 3) @@
  "mute" :> visca_query_bool(<<4, \H75>>, 2, 3) @@
  "privacy_table" :> Byte(<<5, \H70>>, 15) @@
  "privacy_display" :> Setting(<<4, \H77>>, 1, 3, 256, {}) @@
  "privacy_pan_tilt" :> Nibbles(<<4, \H79>>, 0, 6, \Hffffff) @@
  "privacy_ptz" :> Nibbles(<<4, \H7b, 23>>, 3, 7, \Hfffffff) @@
  "id" :> visca_query_nibble16(<<4, \H22>>, 0)

ReplyInquiries ==
  "continuous_zoom_reply" :> visca_query_bool(<<4, \H69>>, 2, 3) @@
  "zoom_reply_interval" :> visca_query_nibble8(<<4, \H6a>>, 2) @@
  "continuous_focus_reply" :> visca_query_bool(<<4, \H16>>, 2, 3) @@
  "focus_reply_interval" :> visca_query_nibble8(<<4, \H1a>>, 2)

ExtendedInquiries ==
  "minimum_shutter_enabled" :> visca_query_bool(<<4, \H12>>, 2, 3) @@
  "minimum_shutter_position" :> visca_query_nibble8(<<4, \H13>>, 2) @@
  "hlc" :> Setting(<<4, \H14>>, 0, 2, 256, {}) @@
  "register" :> visca_query_nibble8(<<4, \H24, \H7f>>, 0) @@
  "color_bar" :> Byte(<<\H7e, 4, \H7d>>, 3) @@
  "ept" :> visca_query_bool(<<\H7e, 6, 0>>, 2, 3) @@
  "ept_position" :> Nibbles(<<\H7e, 6, \H20>>, 6, 4, 65535)

Inquiries ==
  ZoomInquiries @@ FocusInquiries @@ ExposureInquiries @@ GainInquiries @@
  PictureInquiries @@ DetailInquiries @@ UserInquiries @@ ReplyInquiries @@ ExtendedInquiries
-----------------------------------------------------------------------------
(***************************************************************************)
(* Actions: the packet, and the settings whose value is then unknown.      *)
(***************************************************************************)
Speeds(key, start) == {Append(key, start + s) : s \in {0, 7}}

Movements ==
  {[bytes |-> b, moves |-> {"zoom_position"}] :
     b \in {<<4, 7, 0>>} \cup Speeds(<<4, 7>>, \H20) \cup Speeds(<<4, 7>>, \H30)} \cup
  {[bytes |-> b, moves |-> {"dzoom_position"}] :
     b \in {<<4, 6, 0>>, <<4, 6, \H10>>} \cup Speeds(<<4, 6>>, \H20) \cup Speeds(<<4, 6>>, \H30)} \cup
  {[bytes |-> b, moves |-> {"focus_position"}] :
     b \in {<<4, 8, 0>>, <<4, \H18, 1>>} \cup Speeds(<<4, 8>>, \H20) \cup Speeds(<<4, 8>>, \H30)} \cup
  {[bytes |-> <<4, \H47>> \o Digits(v, 8, 16), moves |-> {"zoom_position", "focus_position"}] :
     v \in {0, \H7ac0f000}}

\* visca_command_adjust: reset, up and down.
visca_command_adjust(code, item) ==
  {[bytes |-> <<4, code, value>>, moves |-> {item}] : value \in {0, 2, 3}}

Adjustments ==
  visca_command_adjust(2, "aperture_level") \cup visca_command_adjust(3, "r_gain") \cup
  visca_command_adjust(4, "b_gain") \cup visca_command_adjust(\Ha, "shutter") \cup
  visca_command_adjust(\Hb, "iris") \cup visca_command_adjust(\Hc, "gain") \cup
  visca_command_adjust(\Hd, "bright") \cup visca_command_adjust(\He, "exposure_compensation")

Toggles ==
  {[bytes |-> <<4, \H38, \H10>>, moves |-> {"focus_mode"}],
   [bytes |-> <<4, \H15, \H10>>, moves |-> {"display"}],
   [bytes |-> <<4, \H75, \H10>>, moves |-> {"mute"}],
   [bytes |-> <<4, \H10, 5>>, moves |-> {"r_gain", "b_gain"}]}

\* A reset, and a recall of a memory, change what they like.
Resets ==
  {[bytes |-> <<4, \H19, 1>>, moves |-> {"zoom_position", "focus_position"}],
   [bytes |-> <<4, \H19, 3>>, moves |-> DOMAIN Commands],
   [bytes |-> <<0, 1>>, moves |-> {}]}

\* The secret knocks of visca_camera_enter_maintenance_mode, after power off.
MaintenanceSteps ==
  {[bytes |-> <<4, 0, b>>, moves |-> {"power"}] : b \in {\Hc, \Hd, \H13, 4, \H20}}

visca_memory_command ==
  {[bytes |-> <<4, \H3f, action, number>>,
    moves |-> IF action = 1 THEN {} ELSE DOMAIN Commands] :
     action \in 0..2, number \in {0, \H63, \H7f}}

Actions ==
  Movements \cup Adjustments \cup Toggles \cup Resets \cup MaintenanceSteps \cup visca_memory_command

\* Settings that are written and never read: only their keys matter.
TitleKeys == {<<4, \H73, \H10>>, <<4, \H73, \H20>>, <<4, \H73, \H30>>, <<4, \H74>>}
MaskKeys == {<<4, \H76>>, <<4, \H78>>, <<4, \H6f>>, <<4, \H7c>>}
ExtendedKeys ==
  {<<4, \H20>>, <<4, \H50>>, <<4, \H5f>>, <<4, \H49>>, <<4, \H4f>>} \cup
  {<<4, \H1f, feature>> : feature \in {2, \He, \H21, \H42, \H49, \H4e, \H4f}}

Keys == {Inquiries[i].key : i \in DOMAIN Inquiries}
ActionPackets == {a.bytes : a \in Actions}
=============================================================================
