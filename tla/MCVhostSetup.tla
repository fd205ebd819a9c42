---------------------------- MODULE MCVhostSetup ----------------------------
(***************************************************************************)
(* Queue 0 sends, queue 1 receives.  The first table has two regions that  *)
(* adjoin, one way round in guest memory and the other way round in the    *)
(* driver's, the second one smaller region.                                *)
(***************************************************************************)
EXTENDS VhostSetup

At(phys, size, user, off) ==
    [guest_phys_addr |-> phys, size |-> size, user_addr |-> user, mmap_offset |-> off]

MCTables == << <<At(0, 3, 13, 0), At(3, 4, 9, 2)>>, <<At(0, 4, 10, 0)>> >>

Buffer(addr, len, write) == [addr |-> addr, len |-> len, write |-> write]

MCChains == { <<Buffer(0, 1, FALSE)>>,
              <<Buffer(1, 2, FALSE), Buffer(3, 1, FALSE)>>,
              <<Buffer(0, 2, FALSE), Buffer(2, 1, FALSE), Buffer(3, 1, FALSE)>>,
              <<Buffer(3, 1, TRUE)>>,
              <<Buffer(1, 2, TRUE), Buffer(3, 1, TRUE)>> }

MCFeatures == {{}, Feature}
=============================================================================
