------------------------------- MODULE MCUsb -------------------------------
(* Usb with two-byte packets and an operator who types a few lines. *)
EXTENDS Usb

MCDelta == ("-300" :> -300) @@ ("7" :> 7)
MCLines == { <<"ping">>, <<"inject", "ff">>, <<"bulk_test">>, <<"bulk_test", "7", "7">>,
             <<"mouse_move", "-300", "7">>,
             <<"mouse_button", "l", "down">>, <<"mouse_button", "l", "up">>,
             <<"bulk_test", "7", "7", "ping">> }
MCTogether == { {"events"}, {"control", "bulk"}, {"console"} }
=============================================================================
