----------------------------- MODULE MCDelivery -----------------------------
(* Instances of Delivery for TLC: each PDU type, with and without data.    *)
EXTENDS Delivery

PDU(type, id, service, data) ==
    [type |-> type, invokeID |-> id, service |-> service, data |-> data]

MCPDUs ==
    {PDU(SimpleAck, 1, 15, <<>>), PDU(ComplexAck, 0, 12, <<1, 0, 1, 4>>),
     PDU(ErrorPDU, 255, 12, <<145, 2, 145, 32>>), PDU(RejectPDU, 3, 9, <<>>),
     PDU(AbortPDU, 4, 4, <<>>), PDU(ConfirmedRequest, 1, 12, <<1, 32>>),
     PDU(UnconfirmedRequest, 0, 8, <<>>),
     PDU(UnconfirmedRequest, 0, 2, <<9, 1>>), PDU(64, 1, 0, <<1>>)}

MCDevices ==
    {[device |-> d, maxAPDU |-> m, segmentation |-> s, vendor |-> v] :
        d \in {0, 1, 4194303}, m \in {50, 1476}, s \in {0, 3}, v \in {0, 999}}

MCOriginIP == <<10, 0, 0, 5>>
MCBBMDIP == <<10, 0, 1, 1>>
MCMACs == {<<9>>, <<1, 1, 1, 1, 186, 192>>}

=============================================================================
