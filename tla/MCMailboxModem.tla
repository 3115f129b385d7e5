--------------------------- MODULE MCMailboxModem ---------------------------
(* Small instances of MailboxModem for TLC.                                *)
EXTENDS MailboxModem

CONSTANT zeros

MCPayloads == {zeros}
MCControlWords == {{"TX_START"}, {"RX_ACK"}, {"RX_LISTEN"}, {"RX_STOP"}}
MCListenWords == {{"RX_LISTEN"}, {"RX_STOP"}}
MCBadFrames == {BlankFrame}
MCFrames == {[seq |-> 1, len |-> 20, data |-> zeros, crc |-> TRUE]}

(***************************************************************************)
(* The toggles mean something only by their differences: flipping one on   *)
(* both sides of its crossing changes nothing, so states are compared by   *)
(* the differences.                                                        *)
(***************************************************************************)
Crossing(toggle, sync) == [i \in 1..3 |-> sync[i] # toggle]

MCView ==
  << tx_sequence, tx_length, tx_data, rx, tx_busy, tx_done, rx_valid,
     rx_overflow, echo_pending, modem_wait, modem_timer, listening,
     listen_inflight, listen_timer, modem_tx_bits, s_axi_bvalid,
     modem_rx_bits, modem_rx_locked,
     Crossing(modem_tx_toggle, msg_tx_sync),
     Crossing(modem_listen_toggle, msg_listen_sync),
     Crossing(modem_stop_toggle, msg_stop_sync),
     Crossing(modem_rx_toggle, modem_rx_sync),
     msg_mode_sample, msg_listen_sample, start_pulse_sample,
     msg_abort_pending, msg_cap_armed, msg_cap_delay, done_sticky_sample,
     received_sample, core_tx, ber, received, shift, ber_abort, ber_done,
     timed_out, done, stopped, overdue >>
=============================================================================
