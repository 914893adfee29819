------------------------------ MODULE MCFullSync ------------------------------
EXTENDS FullSync

CONSTANTS settled, fresh

\* The events of two clubs over the seasons.
AllEvents ==
    [kind : {"teams", "rosters", "schedule"}, club : {settled, fresh}, season : 1 .. MaxSeason]

=============================================================================
