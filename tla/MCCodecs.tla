------------------------------ MODULE MCCodecs ------------------------------
(***************************************************************************)
(* Two families of inputs, one at a time: every instruction word, and every *)
(* identifier of a CAN frame, spelled for the bus by one half of can_ref.py *)
(* and given to the other.  Nothing happens to either.                      *)
(***************************************************************************)
EXTENDS IsaAgreement

CONSTANT Payloads     \* the data bytes to enumerate

VARIABLE sent         \* what the frame carries

Can == INSTANCE CanReference

NoFrame == [ident |-> 0, data |-> <<>>]

CodecsInit ==
  \/ Init /\ sent = NoFrame
  \/ word = 0 /\ sent \in [ident : 0 .. 2047, data : Payloads]

CodecsSpec == CodecsInit /\ [][UNCHANGED <<word, sent>>]_<<word, sent>>

MCPayloads == {<<90, 31>>}

-----------------------------------------------------------------------------
Reads ==
  LET decoded == Can!destuff(Can!frame(sent.ident, sent.data, TRUE))
  IN  /\ decoded.errors = {}
      /\ decoded.fields.id = sent.ident
      /\ decoded.fields.dlc = Len(sent.data)
      /\ decoded.fields.data = sent.data
      /\ decoded.fields.crc_ok

(* The five bits before the delimiter are equal: the frame has a stuff bit  *)
(* after the last bit of its CRC.                                           *)
EndsInStuffBit ==
  LET bits == Can!stream(sent.ident, sent.data, 0)
      stuffed == Can!stuff(bits)
  IN  stuffed /= Can!stuff(SubSeq(bits, 1, Len(bits) - 1)) \o <<bits[Len(bits)]>>

(* "Decode a bus bit list from the SOF: returns (fields dict, errors list)" *)
(* (can_ref.py:76): a frame that is right decodes to what it carries, with  *)
(* no error.                                                                *)
FramesDecode == sent /= NoFrame => Reads

(* A right frame decodes so, stuffed anywhere but after the CRC's last bit: *)
(* a run carried over the DLC and its stuff bit, over a stuff bit into the  *)
(* next run, over the data into the CRC.                                    *)
StuffedFramesDecode == sent /= NoFrame /\ ~EndsInStuffBit => Reads

=============================================================================
