------------------------- MODULE MCServicePayments -------------------------
(* Two operators; the parts of an amount are in eighths.                   *)
EXTENDS ServicePayments

CONSTANTS op1, op2

MCSplit == [developer |-> 2, protocol |-> 1, operator |-> 2, staker |-> 2, keeper |-> 1]

Out(failing, refused) == [failing |-> failing, refused |-> refused]
MCOutsiders == {Out({"developer"}, {}), Out({}, {op1}), Out({"protocol"}, {op1})}

MCMaxJobs == [Subscription |-> 0, EventDriven |-> 1]
MCOneJob == [Subscription |-> 1, EventDriven |-> 1]
MCMaxTime == [Subscription |-> 3, EventDriven |-> 0]
=============================================================================
