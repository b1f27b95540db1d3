----------------------------- MODULE MCSrvWire ------------------------------
(* A small instance of SrvWire for TLC.                                    *)
EXTENDS SrvWire

\* Shorter than a buffer; two full pieces and a rest; a full piece only.
MCLengths == {[chunks |-> 0, tail |-> TRUE], [chunks |-> 2, tail |-> TRUE],
              [chunks |-> 1, tail |-> FALSE]}
MCShort == {[chunks |-> 0, tail |-> TRUE]}
=============================================================================
