----------------------------- MODULE MCVlmGuidance -----------------------------
(* Recommendations for TLC: a region by its words, one with a word of the      *)
(* sensitivity too, a sensitivity without a region, a region by numbers that   *)
(* leave the frame, and a frame rate, which is switched off.                   *)
EXTENDS VlmGuidance

Text(kinds, words, numbers) == [kinds |-> kinds, words |-> words, numbers |-> numbers]
MCTexts == {Text({"region"}, {"center", "left"}, <<>>),
            Text({"region", "sensitivity"}, {"lower", "right"}, <<>>),
            Text({"region", "sensitivity"}, {"more"}, <<>>),
            Text({"region"}, {}, <<5, 250, 130, 7>>),
            Text({"fps"}, {"more"}, <<>>)}
===============================================================================
