------------------------------ MODULE MCChart ------------------------------
(* Histories that lead up to the cases that matter, then a few days of every  *)
(* bar the small market below can print.                                      *)
EXTENDS Chart

\* A series from closes and wicks: each bar opens where the last one closed.
Series(prints) ==
  [i \in DOMAIN prints |->
     LET open  == IF i = 1 THEN 100 ELSE prints[i - 1][1]
         close == prints[i][1]
     IN [open |-> open, close |-> close, volume |-> 4,
         high |-> Max({open, close}) + prints[i][2],
         low  |-> Min({open, close}) - prints[i][3]]]

Fired == Series(<<
    <<100,2,2>>, <<104,2,2>>, <<100,0,2>>, <<112,2,0>>, <<120,2,0>>, <<122,2,0>>, <<134,2,2>>, 
    <<126,0,2>>, <<138,2,2>>, <<146,0,0>>, <<134,2,0>>, <<126,2,2>>, <<130,0,0>>, <<134,2,2>>, 
    <<146,2,0>>, <<142,0,2>>, <<138,0,2>>, <<146,0,0>>, <<134,0,2>>, <<126,0,2>>, <<130,0,0>>, 
    <<118,2,2>>, <<110,2,0>>, <<122,0,0>>, <<118,0,2>>, <<130,2,2>>, <<118,0,2>>, <<130,0,0>>, 
    <<132,2,2>>, <<130,0,0>>>>)

ShortArmed == Series(<<
    <<100,2,2>>, <<104,2,2>>, <<106,2,0>>, <<102,0,2>>, <<114,0,2>>, <<102,2,2>>, <<110,2,2>>, 
    <<106,2,2>>, <<98,2,0>>, <<110,2,2>>, <<114,2,2>>, <<126,0,2>>, <<122,0,2>>, <<130,0,0>>, 
    <<142,0,2>>, <<144,0,2>>, <<156,0,2>>, <<168,2,2>>, <<170,0,2>>, <<178,0,2>>, <<174,0,2>>, 
    <<176,0,2>>, <<164,2,0>>, <<168,2,2>>, <<166,0,2>>, <<154,2,2>>, <<162,0,2>>>>)

WeeklyLong == Series(<<
    <<100,2,2>>, <<104,2,2>>, <<108,2,2>>, <<104,2,0>>, <<112,2,0>>, <<110,2,2>>, <<108,2,0>>, 
    <<100,0,0>>, <<102,2,2>>, <<98,2,2>>, <<102,0,0>>, <<110,0,2>>, <<122,2,0>>, <<134,0,0>>, 
    <<136,0,0>>, <<128,2,2>>, <<130,2,0>>, <<122,2,0>>, <<114,0,0>>>>)

Ext == Series(<<
    <<100,2,2>>, <<104,2,2>>, <<108,2,2>>, <<112,2,0>>, <<108,2,2>>, <<112,2,0>>, <<114,0,2>>, 
    <<126,2,2>>, <<118,0,2>>, <<106,0,2>>, <<94,0,0>>, <<82,0,2>>, <<84,2,0>>, <<88,0,2>>, 
    <<86,0,2>>, <<90,0,0>>, <<82,0,2>>, <<74,2,0>>, <<72,2,0>>, <<76,2,0>>, <<84,0,0>>, 
    <<76,2,2>>, <<64,0,2>>, <<76,2,0>>, <<84,2,2>>, <<88,2,0>>, <<80,0,2>>>>)

Reached == Series(<<
    <<100,2,2>>, <<104,2,2>>, <<92,2,2>>, <<100,2,2>>, <<88,0,2>>, <<92,2,0>>, <<100,2,0>>, 
    <<102,2,0>>, <<106,0,2>>, <<110,0,0>>, <<108,2,0>>, <<106,2,2>>, <<98,2,0>>, <<86,2,2>>, 
    <<98,2,2>>, <<102,2,2>>, <<104,2,2>>, <<102,2,0>>, <<100,0,0>>, <<108,0,2>>, <<104,2,2>>, 
    <<112,0,0>>, <<100,0,0>>, <<92,0,0>>, <<80,2,0>>, <<92,2,2>>, <<90,2,2>>, <<102,2,0>>, 
    <<104,2,2>>, <<102,0,2>>>>)

Runner == Series(<<
    <<100,2,2>>, <<104,2,2>>, <<100,2,0>>, <<88,2,2>>, <<100,2,2>>, <<108,2,2>>, <<104,0,0>>, 
    <<100,0,2>>, <<88,2,0>>, <<96,2,2>>, <<88,0,2>>, <<90,0,0>>, <<102,0,2>>, <<100,2,2>>, 
    <<98,2,0>>, <<100,0,2>>, <<98,2,2>>, <<96,2,0>>, <<84,0,0>>, <<82,2,0>>, <<78,0,2>>, 
    <<66,0,2>>, <<54,2,0>>, <<46,2,2>>, <<50,0,2>>, <<42,2,0>>, <<54,2,2>>, <<52,2,0>>, 
    <<56,2,0>>, <<44,0,2>>, <<56,2,0>>, <<60,0,2>>>>)

Both == Series(<<
    <<100,2,2>>, <<104,2,2>>, <<100,0,2>>, <<88,2,0>>, <<92,2,2>>, <<88,2,0>>, <<86,2,2>>, 
    <<84,2,0>>, <<92,0,2>>, <<94,2,0>>, <<98,0,0>>, <<100,0,0>>, <<96,2,2>>, <<84,0,0>>, 
    <<96,0,0>>, <<84,0,0>>, <<82,2,0>>, <<84,2,2>>, <<80,0,0>>, <<82,2,0>>, <<94,2,2>>, 
    <<106,2,2>>, <<94,0,2>>, <<98,0,0>>, <<86,0,0>>>>)

Bound == Series(<<
    <<100,2,2>>, <<104,2,2>>, <<100,0,0>>, <<104,0,2>>, <<108,2,0>>, <<96,2,0>>, <<94,2,2>>, 
    <<96,0,2>>, <<104,0,2>>, <<112,2,2>>, <<104,0,0>>, <<102,0,0>>, <<114,2,2>>, <<112,0,0>>, 
    <<124,0,0>>, <<116,0,2>>, <<114,0,2>>, <<126,0,0>>, <<114,0,0>>, <<106,0,0>>, <<94,2,0>>, 
    <<86,2,0>>, <<74,0,2>>, <<76,2,0>>, <<78,2,0>>, <<80,0,0>>, <<78,0,0>>, <<76,2,2>>, 
    <<64,0,0>>, <<52,2,0>>, <<50,2,0>>, <<54,0,0>>, <<50,2,0>>, <<42,0,2>>, <<46,2,2>>, 
    <<58,0,2>>>>)

WrongStop == Series(<<
    <<100,2,2>>, <<104,2,2>>, <<100,0,2>>, <<92,2,0>>, <<104,2,2>>, <<102,2,0>>, <<94,0,0>>, 
    <<82,0,2>>, <<74,2,0>>, <<82,0,0>>, <<94,0,2>>, <<90,0,2>>, <<92,0,2>>, <<84,2,2>>, 
    <<82,0,2>>, <<86,2,2>>, <<84,0,0>>, <<80,0,2>>, <<84,2,0>>, <<92,0,0>>, <<84,0,0>>, 
    <<82,2,2>>, <<94,0,2>>, <<82,0,0>>, <<86,0,0>>, <<84,2,0>>, <<88,0,2>>, <<90,0,0>>, 
    <<88,2,0>>, <<90,0,2>>, <<78,2,2>>, <<80,0,2>>, <<72,2,2>>, <<64,2,0>>, <<62,2,0>>, 
    <<66,2,0>>, <<68,0,0>>, <<80,2,0>>, <<84,0,2>>>>)

Behind == Series(<<
    <<100,2,2>>, <<104,2,2>>, <<102,0,0>>, <<114,0,0>>, <<116,0,0>>, <<118,2,2>>, <<106,0,2>>, 
    <<108,0,2>>, <<106,0,0>>, <<108,0,0>>, <<104,2,0>>, <<92,2,2>>, <<90,2,2>>, <<78,0,0>>, 
    <<76,2,0>>, <<88,0,0>>, <<92,2,2>>, <<88,0,2>>, <<96,2,0>>, <<98,0,2>>, <<106,0,2>>, 
    <<98,0,2>>, <<90,0,2>>, <<78,2,0>>, <<90,2,0>>, <<78,2,2>>, <<66,2,2>>, <<70,0,0>>, 
    <<78,2,2>>, <<76,0,0>>, <<84,2,2>>, <<92,0,2>>, <<84,0,0>>, <<86,0,0>>>>)

Resisted == Series(<<
    <<100,2,2>>, <<104,2,2>>, <<100,2,2>>, <<96,0,2>>, <<108,2,0>>, <<106,0,0>>, <<104,2,0>>,
    <<106,2,2>>, <<118,2,2>>, <<114,2,2>>, <<110,0,2>>, <<112,2,0>>, <<108,2,0>>, <<100,2,2>>,
    <<96,2,0>>, <<104,0,0>>, <<96,2,0>>, <<104,0,2>>, <<92,0,2>>, <<88,2,0>>, <<96,0,0>>,
    <<108,0,2>>, <<112,2,2>>, <<110,0,2>>, <<112,0,0>>, <<104,0,2>>, <<96,0,0>>, <<88,0,0>>,
    <<92,0,2>>, <<104,2,0>>, <<102,2,0>>, <<104,2,2>>, <<102,0,2>>>>)

\* Most run for two days, one long enough for a bracket to be settled.
For(days, histories) == {[bars |-> h, days |-> days] : h \in histories}
MCRuns == For(1, {Resisted, Reached, Runner, WeeklyLong}) \cup For(2, {ShortArmed, Ext}) \cup For(3, {Fired})
MCBoundRuns == For(1, {Bound, WrongStop, Behind, Both})

\* A first print, a rise, a fall, and a bar that ran both ways and closed up.
MCMoves ==
  LET move(change, up, down, volume) ==
        [change |-> change, up |-> up, down |-> down, volume |-> volume]
  IN {move(0, 0, 0, 1), move(8, 2, 2, 4), move(-8, 2, 2, 4), move(2, 8, 10, 5)}

MCHalfLife == [scalp |-> 3, swing |-> 21]
MCHorizon == [scalp |-> 3, swing |-> 30]
MCAlias == [RUT |-> "IWM", IWM |-> "IWM"]

Row(id, label, person, direction, timeframe, published, levels) ==
  [id |-> id, label |-> label, person |-> person, direction |-> direction,
   timeframe |-> timeframe, published |-> published, levels |-> levels]

MCTheses ==
  {Row(1, "IWM", "ann", "long", "swing", 2, {130}), Row(2, "IWM", "bob", "short", "swing", 2, {}),
   Row(3, "RUT", "ann", "short", "swing", 3, {}), Row(4, "IWM", "cat", "long", "scalp", 16, {86, 134}),
   Row(5, "RUT", "cat", "long", "scalp", 24, {}), Row(6, "IWM", "dan", "short", "scalp", 26, {90}),
   Row(7, "IWM", "dan", "long", "scalp", 27, {124}), Row(8, "IWM", "eve", "neutral", "scalp", 27, {}),
   Row(9, "IWM", "eve", "long", "swing", Undated, {}), Row(10, "IWM", "bob", "short", "decade", 5, {}),
   Row(11, "IWM", "bob", "long", "swing", 20, {})}

Stance(id, person, lean, horizon, published) ==
  [id |-> id, person |-> person, lean |-> lean, horizon |-> horizon, published |-> published]

MCStances ==
  {Stance(1, "ann", "bullish", "swing", 2), Stance(2, "bob", "bearish", "swing", 2),
   Stance(3, "bob", "bullish", "macro", 19), Stance(4, "cat", "bullish", "swing", 24),
   Stance(5, "ann", "bearish", "swing", 28), Stance(6, "dan", "bearish", "swing", Undated)}

\* Saying one thing always is not skill: somebody whose graded calls all point
\* one way has beaten no fixed stance, and picked no better than their own mix
\* aimed blind (core.score.best_static_baseline, mix_baseline_returns).
ASSUME StanceIsNoSkill ==
  \A direction \in {"long", "short"} :
    \A moves \in [1..3 -> {-40, -10, 0, 10, 40}] :
      LET grades == {[id |-> i, direction |-> direction, move |-> moves[i]] : i \in 1..3}
      IN SkillEdge(grades) <= 0 /\ SelectionEdge(grades) = 0
=============================================================================
