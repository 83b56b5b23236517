-------------------------- MODULE MCBootScheduler --------------------------
(* Three workers, four runs on the platforms of platform.rs, of which only *)
(* FvpRdN2 is limited (to one boot at a time).                             *)
EXTENDS BootScheduler

MCPlatforms == {"FvpRevC", "FvpRdN2"}
MCLimited == {"FvpRdN2"}
MCSlotLimit == [platform \in MCLimited |-> 1]
MCPlanned == <<"FvpRdN2", "FvpRdN2", "FvpRevC", "FvpRdN2">>
MCCodes == {0, 130}
=============================================================================
