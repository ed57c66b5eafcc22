------------------------------ MODULE TaskTimes ------------------------------
(* The columns of the task store that hold times, as the texts they are.      *)
(* TaskRepository compares instants; this module says that the code, which    *)
(* compares texts, comes to the same conclusions.                             *)
EXTENDS TaskRepository, IsoTime

\* Every time the store computes can be written: datetime raises OverflowError
\* where the year would have more digits than the text has room for.
ASSUME TimesAssumption ==
    /\ MaxTime + RetentionSeconds < Power[SecondDigits + FractionDigits]
    /\ MaxTime + LeaseSeconds < Power[SecondDigits + FractionDigits]

UpTo(x, y) == TextUpTo(IsoFormat(x), IsoFormat(y))

\* Every comparison a WHERE or ORDER BY of the task store makes comes out on the
\* texts as on the instants: leases, expiry, the age of a tombstone and the order
\* of acceptance, whether or not a time falls on a whole second.
TimesCompareAsText ==
    \A t \in DOMAIN tasks, now \in 0..clock :
        /\ tasks[t].lease_owner # NoWorker =>
              (UpTo(tasks[t].lease_expires_at, now) <=> tasks[t].lease_expires_at <= now)
        /\ UpTo(tasks[t].expires_at, now) <=> tasks[t].expires_at <= now
        /\ now >= TombstoneSeconds =>
              (UpTo(tasks[t].expires_at, now - TombstoneSeconds)
                  <=> tasks[t].expires_at <= now - TombstoneSeconds)
        /\ \A u \in DOMAIN tasks :
              UpTo(tasks[t].created_at, tasks[u].created_at)
                  <=> tasks[t].created_at <= tasks[u].created_at
=============================================================================
