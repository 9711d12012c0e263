---------------------------- MODULE MCAdaptive ----------------------------
(***************************************************************************)
(* Small instances of Adaptive: a pressure signal in all bands, and a      *)
(* traffic signal that guards EMERGENCY.                                   *)
(***************************************************************************)
EXTENDS Adaptive

Band(on, off) == [enter |-> on, exit |-> off]

MCBands ==
  <<[pressure |-> Band(1, 0)],
    [pressure |-> Band(2, 0)],
    [pressure |-> Band(3, 1), traffic |-> Band(1, 0)]>>

MCGuards == <<{}, {}, {"pressure", "traffic"}>>
MCNoImmediate == <<{}, {}, {}>>
MCStages == <<2, 3>>
=============================================================================
