--------------------------- MODULE MCPostingDates ---------------------------
EXTENDS PostingDates

MCCardDates == [seek |-> {"bound", "relative", "instant"}, linkedin |-> {"bound", "relative", "day"}]
MCDetailDates == [seek |-> {"instant", "day"},
                  linkedin |-> {"instant", "malformed"}]
MCInitial == {[date |-> "none", state |-> "unknown"],
              [date |-> "legacy", state |-> "not_present"],
              [date |-> "legacy", state |-> "known"],
              [date |-> "broken", state |-> "missing"]}
=============================================================================
