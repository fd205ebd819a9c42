----------------------------- MODULE MCClients -----------------------------
(* A few API clients that nothing tells apart, and the kernel's client.    *)
EXTENDS Clients, TLC

CONSTANT k

NoKernel == <<>>
WithKernel == <<k>>
BothFlags == {{}, {"rx_all", "notify"}}
MCFlags == {{}, {"rx_all"}, {"notify"}}

Symmetry == Permutations(Api) \cup Permutations(Station)
=============================================================================
