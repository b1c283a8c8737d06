----------------------------- MODULE MCGuestProcess -----------------------------
EXTENDS GuestProcess

CONSTANTS p1, p2, p3, h1, h2, h3

\* The guests of fake_id0: each habit among them, those that interfere together.
MCGuests ==
    {{"uids", "execs", "keepcaps", "temporary", "partly"},
     {"gids", "fsids"}, {"gids", "execs"},
     {"uids", "fsids", "temporary", "partly", "execs"},
     {"uids", "forks"},
     {"uids", "files", "chmods"},
     {"files", "chmods", "crashes"},
     {"files", "chmods", "overlap", "lookups", "crashes", "fake_permissions"},
     {"files", "chmods", "overlap", "lookups", "forks"}}

\* The files of a child that overlap with its parent's: what the comments say of them.
OverlapGuests == {{"files", "forks", "overlap"}, {"forks"}}

\* A synthesized file, the maps, and the root of /proc.
MCProcPaths == {<<"self", "status">>, <<"self", "maps">>, <<>>}

\* The pids of the guests among those of the host, in the order getdents(2) gives them.
MCPidOrder == <<p1, h1, p2, h2, h3, p3>>

MCProcGuests ==
    {{"opens", "plain", "dups"},
     {"opens", "forks", "exits"},
     {"opens", "plain", "many", "reuses"},
     {"opens", "plain", "vectors", "preads"},
     {"opens", "dups", "over"},
     {"opens", "dups", "shares"},
     {"opens", "plain", "untracked"},
     {"kills", "groups", "forks", "exits", "family"},
     {"kills", "threads", "forks", "exits", "family"},
     {"lists", "forks", "exits", "family"}}

\* Each limit alone and with the other, in both orders, twice, and out of range.
MCLimitOptions ==
    {<<OptionProc(2)>>, <<OptionCpu(1), OptionProc(3)>>, <<OptionProc(3), OptionIsolated>>,
     <<OptionProc(2), OptionCpu(2), OptionProc(3)>>, <<OptionCpu(3)>>, <<OptionProc(0)>>, <<>>}

MCLimitGuests == {{"forks", "spawns", "ends", "kept"}, {"forks", "ends", "spawns", "races", "pins"}}

MCHeapGuests ==
    {{"shrinks", "scarce", "threads", "forks", "execs"}, {"early", "scarce", "execs", "forks", "runner"},
     {"execs", "runner", "refused"}}

================================================================================
