------------------------ MODULE MCPeripheralTransfer ------------------------
(* Two messages of two and three datagrams of two bytes, FYN with key 6.    *)
EXTENDS PeripheralTransfer

MCTransfers == << [key |-> 0, data |-> <<1, 2, 3>>],
                  [key |-> 0, data |-> <<4, 5, 6, 7, 4>>] >>
MCOneTransfer == << [key |-> 0, data |-> <<1, 2, 3, 4, 5>>] >>
MCFyn == <<6, 0, 0, 0, 0, 1, 0, 0, 0, 7>>
\* A name longer than a header; its first byte is not 0.
MCOtherValue == <<2, 1, 3, 3, 1, 2, 1, 2, 5, 5, 7>>
\* One service, or another one with a readable characteristic before it.
MCPeripherals == { << <<"name", "transfer">> >>, << <<"name">>, <<"transfer">> >> }
MCOnePeripheral == { << <<"name", "transfer">> >> }
MCFaults == [power |-> 2, disconnect |-> 1, readError |-> 1]
MCReadError == [power |-> 0, disconnect |-> 0, readError |-> 1]
=============================================================================
