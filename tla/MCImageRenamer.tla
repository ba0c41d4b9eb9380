--------------------------- MODULE MCImageRenamer ----------------------------
\* Eight photos: two of one name, one that is no PNG, one of a day there is not, one
\* read-only, one of the hour the clock skips, one beneath an output directory, and
\* one no form matches.
EXTENDS ImageRenamer
CONSTANTS small, large

Taken(form, date, size) ==
  [form |-> form, date |-> date, size |-> size, readonly |-> FALSE, beneath |-> FALSE]
On(y, m, d, h) == [y |-> y, m |-> m, d |-> d, h |-> h]

EightShots ==
  [k \in Photo |->
    CASE k = 1 -> Taken("dated", On(2024, 2, 29, 9), small)
      [] k = 2 -> Taken("dated", On(2024, 2, 28, 9), Never)
      [] k = 3 -> Taken("old", On(2024, 2, 29, 9), small)
      [] k = 4 -> Taken("new", On(2023, 2, 29, 9), large)
      [] k = 5 -> [Taken("new", On(2024, 12, 31, 9), large) EXCEPT !.readonly = TRUE]
      [] k = 6 -> Taken("old", On(2024, 3, 31, 2), small)
      [] k = 7 -> [Taken("new", On(2024, 12, 31, 9), small) EXCEPT !.beneath = TRUE]
      [] OTHER -> Taken("other", On(0, 0, 0, 0), Never)]

SkippedHour == {<<2024, 3, 31, 2>>}
=============================================================================
