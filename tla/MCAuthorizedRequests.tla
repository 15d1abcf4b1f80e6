------------------------ MODULE MCAuthorizedRequests ------------------------
EXTENDS AuthorizedRequests

CONSTANTS safe, unsafe

MCReplaySafe == [c \in Calls |-> c # unsafe]
=============================================================================
