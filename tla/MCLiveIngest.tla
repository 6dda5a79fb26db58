---------------------------- MODULE MCLiveIngest ----------------------------
(***************************************************************************)
(* Names 1, 3 and 5 are spellings of one entity, 2 and 4 of another; the    *)
(* sessions of the history call the first 3 and 5, and those posted call it *)
(* 1, or join the two.                                                      *)
(***************************************************************************)
EXTENDS LiveIngest

Named(canon, aliases) == [canon |-> canon, aliases |-> aliases]
Slot(canon) == [canon |-> canon, attr |-> "x"]

MCHistory == <<"s1", "s2">>
MCPosted == {"s3", "s4"}
MCSessions == {"s1", "s2", "s3", "s4"}
MCClaims == 1..4
MCClaimsOf == ("s1" :> {1}) @@ ("s2" :> {2}) @@ ("s3" :> {3}) @@ ("s4" :> {4})
MCEntitiesOf ==
  << {Named(3, {})}, {Named(5, {3})}, {Named(1, {5})}, {Named(2, {1})} >>
MCSlotOf == << Slot(3), Slot(5), Slot(1), Slot(2) >>
MCTextStems == << {"t"}, {"t"}, {"t", "u"}, {"u"} >>
MCNameStems == << {"n1"}, {"n2"}, {"n3"}, {"n4"}, {"n5"} >>
MCEventTime == << 0, 0, 1, 0 >>
MCReplies == {{}, {<<1, 2>>, <<2, 3>>}, {<<2, 1>>, <<1, 3>>, <<1, 1>>}}
MCMixes == {{}, {"reset"}, {"post"}, {"post", "crossed"}}
Alike == Permutations(Callers)
NoHistory == <<>>
=============================================================================
