----------------------------- MODULE MCConfigReload -----------------------------
(* Contents for TLC: two that differ in everything a reload applies, one with  *)
(* an unknown severity, one that is not valid, one that the dashboard refuses, *)
(* one without rules and with rate limiting off, one whose level has no known  *)
(* name and one whose level is notset.                                         *)
EXTENDS ConfigReload

Content(valid, accepted, level, value, limiting, severities) ==
    [valid |-> valid, accepted |-> accepted, level |-> level, rules |-> value,
     limiting |-> limiting, limits |-> value, alerting |-> TRUE, alerts |-> value,
     severities |-> severities]

MCLevels == {"info", "debug"}
MCValues == {"none", "default", "a", "b"}
MCDefaults == Content(TRUE, TRUE, "info", "default", FALSE, TRUE)
MCContents == {Content(TRUE, TRUE, "info", "a", TRUE, TRUE),
               Content(TRUE, TRUE, "debug", "b", TRUE, TRUE),
               Content(TRUE, TRUE, "info", "b", TRUE, FALSE),
               Content(FALSE, TRUE, "info", "a", TRUE, TRUE),
               Content(TRUE, FALSE, "debug", "a", TRUE, TRUE),
               Content(TRUE, TRUE, Unknown, "a", TRUE, TRUE),
               Content(TRUE, TRUE, NotSet, "b", TRUE, TRUE),
               Content(TRUE, TRUE, "info", "none", FALSE, TRUE)}
=============================================================================
