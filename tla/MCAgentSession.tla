--------------------------- MODULE MCAgentSession ---------------------------
(* Two commands, one with a large result; drives that are missing, broken,    *)
(* without an identity, with a good one and with one the server refuses.      *)
EXTENDS AgentSession

CONSTANTS c1, c2

MCIds == {c1, c2}
MCLarge == {c2}

Meta(st, vmid, good) == [st |-> st, vmid |-> vmid, good |-> good]
NoFile == Meta("absent", FALSE, FALSE)
Source(yaml, json, cfg) == [yaml |-> yaml, json |-> json, cfg |-> cfg]

MCSources ==
    {Source(Meta("broken", FALSE, FALSE), NoFile, TRUE),
     Source(NoFile, Meta("parsed", TRUE, TRUE), FALSE),
     Source(Meta("parsed", TRUE, FALSE), NoFile, TRUE)}
=============================================================================
