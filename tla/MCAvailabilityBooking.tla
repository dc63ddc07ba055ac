------------------------- MODULE MCAvailabilityBooking -------------------------
EXTENDS AvailabilityBooking, TLC

CONSTANTS r1, r2, car, cust

MCItemOf == [r \in Requests |-> car]
MCCustomerOf == [r \in Requests |-> cust]
Symmetric == Permutations(Requests) \union Permutations(Messages) \union Permutations(Taps)
=============================================================================
