------------------------- MODULE MCAdaptiveHistory -------------------------
(***************************************************************************)
(* Small instances of AdaptiveHistory.                                     *)
(***************************************************************************)
EXTENDS AdaptiveHistory

Band(on, off) == [enter |-> on, exit |-> off]

MCBands ==
  <<[pressure |-> Band(1, 0)],
    [pressure |-> Band(2, 0)],
    [pressure |-> Band(2, 1), traffic |-> Band(1, 0)]>>

MCGuards == <<{}, {}, {"pressure", "traffic"}>>
MCImmediate == <<{}, {}, {"traffic"}>>
MCStages == <<2, 3>>
=============================================================================
