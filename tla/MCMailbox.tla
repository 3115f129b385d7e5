----------------------------- MODULE MCMailbox -----------------------------
(* A small instance of MessageMailbox for TLC.                             *)
EXTENDS MessageMailbox

CONSTANT zeros

\* the payload decides nothing here
MCPayloads == {zeros}

\* the command bits zmbox.c and zynq_message_console.py write, one per write
MCControlWords == {{"TX_START"}, {"RX_ACK"}, {"RX_LISTEN"}, {"RX_STOP"}}

\* a good frame, one with a failed CRC, one with a length out of range
MCFrames == {[seq |-> 1, len |-> 20, data |-> zeros, crc |-> TRUE],
             [seq |-> 0, len |-> 20, data |-> zeros, crc |-> FALSE],
             [seq |-> 0, len |-> 200, data |-> zeros, crc |-> TRUE]}
=============================================================================
