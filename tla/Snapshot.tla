------------------------------ MODULE Snapshot ------------------------------
(***************************************************************************)
(* tracemalloc.py: what a program makes of the list of _get_traces().  A   *)
(* snapshot is a sequence of traces, [size, traceback], and a traceback a  *)
(* sequence of frames, [file, lineno], the most recent first.  They are    *)
(* values, unlike the list they come from.                                 *)
(***************************************************************************)
EXTENDS Tracebacks

-----------------------------------------------------------------------------
(* Filter.  A pattern is the set of the filenames it matches; a lineno of  *)
(* 0 stands for None.                                                      *)

\* Filter.__match_frame().
MatchesFrame(f, frame) ==
  /\ frame.file \in f.pattern
  /\ f.lineno = 0 \/ frame.lineno = f.lineno

\* Mutant: with all_frames, a filter that excludes asks every frame.
MatchesTracebackEach(f, tb) ==
  IF f.allFrames
  THEN \E i \in DOMAIN tb : MatchesFrame(f, tb[i]) = f.inclusive
  ELSE MatchesFrame(f, tb[1]) = f.inclusive

\* Filter._match_traceback(): is the traceback one the filter lets through?
MatchesTraceback(f, tb) ==
  IF f.allFrames
  THEN (\E i \in DOMAIN tb : MatchesFrame(f, tb[i])) = f.inclusive
  ELSE MatchesFrame(f, tb[1]) = f.inclusive

\* Snapshot._filter_trace().
Kept(filters, trace) ==
  LET include == {f \in filters : f.inclusive}
      exclude == filters \ include
  IN /\ include # {} => \E f \in include : MatchesTraceback(f, trace.traceback)
     /\ \A f \in exclude : MatchesTraceback(f, trace.traceback)

\* Snapshot.filter_traces().
FilterTraces(snapshot, filters) ==
  FoldLeft(LAMBDA kept, trace :
             IF Kept(filters, trace) THEN Append(kept, trace) ELSE kept,
           <<>>, snapshot)

-----------------------------------------------------------------------------
(* Grouping.                                                               *)

\* The classes Statistic and StatisticDiff; the traceback is their key here.
Statistic(size, count) == [size |-> size, count |-> count]
StatisticDiff(now, was) ==
  [size |-> now.size, sizeDiff |-> now.size - was.size,
   count |-> now.count, countDiff |-> now.count - was.count]

\* The key of a traceback, or of a frame in cumulative mode.
Key(tb, type) ==
  CASE type = "traceback" -> tb
    [] type = "lineno" -> <<tb[1]>>
    [] type = "filename" -> <<[file |-> tb[1].file, lineno |-> 0]>>

\* Mutant: the second trace of a group replaces the first.
TallyLast(stats, key, size) == With(stats, key, Statistic(size, 1))

\* stat.size += size, stat.count += 1, or a new Statistic.
Tally(stats, key, size) ==
  With(stats, key,
       IF key \in DOMAIN stats
       THEN Statistic(stats[key].size + size, stats[key].count + 1)
       ELSE Statistic(size, 1))

\* What a trace counts for: the key of its traceback or, in cumulative mode,
\* that of each of its frames.
KeysOf(tb, type, cumulative) ==
  IF cumulative THEN [i \in DOMAIN tb |-> Key(<<tb[i]>>, type)]
  ELSE <<Key(tb, type)>>

TallyAll(stats, keys, size) ==
  FoldLeft(LAMBDA counted, key : Tally(counted, key, size), stats, keys)

\* Snapshot._group_by(): statistics by key.
GroupBy(snapshot, type, cumulative) ==
  FoldLeft(LAMBDA stats, trace :
             TallyAll(stats, KeysOf(trace.traceback, type, cumulative), trace.size),
           Empty, snapshot)

\* Mutant: the keys of the old group only are forgotten.
ComparedNew(old, new) ==
  [k \in DOMAIN new |->
     StatisticDiff(new[k], IF k \in DOMAIN old THEN old[k] ELSE Statistic(0, 0))]

\* _compare_grouped_stats(): the keys of both, and those that are left in
\* the old group once the new one was gone through.
Compared(old, new) ==
  [k \in DOMAIN new \cup DOMAIN old |->
     StatisticDiff(IF k \in DOMAIN new THEN new[k] ELSE Statistic(0, 0),
                   IF k \in DOMAIN old THEN old[k] ELSE Statistic(0, 0))]

\* StatisticDiff._sort_key(), to its last component.
Abs(n) == IF n < 0 THEN -n ELSE n
SortKey(diff) == <<Abs(diff.sizeDiff), diff.size, Abs(diff.countDiff), diff.count>>

Greater(a, b) ==
  \E i \in DOMAIN a : a[i] > b[i] /\ \A j \in 1 .. i - 1 : a[j] = b[j]

\* list.sort(reverse=True): the keys, each once, from the greatest rank down.
\* What the code breaks ties with, the traceback, is any order here.
Descending(rank) ==
  CHOOSE keys \in [1 .. Cardinality(DOMAIN rank) -> DOMAIN rank] :
    /\ \A k \in DOMAIN rank : \E i \in DOMAIN keys : keys[i] = k
    /\ \A i, j \in DOMAIN keys : i < j => ~Greater(rank[keys[j]], rank[keys[i]])

\* Snapshot.statistics(): the keys, the biggest group first.
Statistics(snapshot, type, cumulative) ==
  LET stats == GroupBy(snapshot, type, cumulative)
  IN Descending([k \in DOMAIN stats |-> <<stats[k].size, stats[k].count>>])

\* Snapshot.compare_to(): the keys, the biggest difference first.
CompareTo(old, new, type, cumulative) ==
  LET diff == Compared(GroupBy(old, type, cumulative), GroupBy(new, type, cumulative))
  IN Descending([k \in DOMAIN diff |-> SortKey(diff[k])])

-----------------------------------------------------------------------------
(* take_snapshot().                                                        *)

Texted(frames) ==
  [i \in DOMAIN frames |->
     [file |-> TextOf(frames[i].filename), lineno |-> frames[i].lineno]]

\* The snapshot made of the list.
Snapshotted ==
  [i \in DOMAIN list |->
     [size |-> list[i].size, traceback |-> Texted(tuples[list[i].traceback].frames)]]

-----------------------------------------------------------------------------
Taken == tracing /\ limit # 0

Filters ==
  [inclusive : BOOLEAN, pattern : {{a} : a \in Texts},
   lineno : {0, 2}, allFrames : BOOLEAN]

\* Two filters at most, one of them for a line.
FilterSets == {{}} \cup {{f, g} : f \in Filters, g \in {h \in Filters : h.lineno = 0}}

\* What a filter matches is the frame, or one of the frames, whether the
\* filter includes or excludes.
Hit(f, tb) ==
  \E i \in (IF f.allFrames THEN DOMAIN tb ELSE {1}) : MatchesFrame(f, tb[i])

Ignored(filters, tb) ==
  \/ \E f \in filters : ~f.inclusive /\ Hit(f, tb)
  \/ /\ \E f \in filters : f.inclusive
     /\ \A f \in filters : f.inclusive => ~Hit(f, tb)

\* `some` is `all` at the places S, in their order.
IsSelection(some, all, S) ==
  \E at \in [DOMAIN some -> S] :
    /\ \A i \in S : \E n \in DOMAIN some : at[n] = i
    /\ \A n \in DOMAIN some :
         /\ some[n] = all[at[n]]
         /\ \A m \in DOMAIN some : m < n => at[m] < at[n]

\* "a trace is ignored if no inclusive filters match it.  A trace is ignored
\* if at least one exclusive filter matchs it" (doc/api.rst:202-204), and the
\* others are there in their order (tracemalloc.py:410).
FiltersAsDocumented ==
  LET snapshot == Snapshotted
      IsFiltered(filters) ==
        IsSelection(FilterTraces(snapshot, filters), snapshot,
                    {i \in DOMAIN snapshot : ~Ignored(filters, snapshot[i].traceback)})
  IN Taken => \A filters \in FilterSets : IsFiltered(filters)

-----------------------------------------------------------------------------
\* The sum of the sizes of what there is: groups, differences or traces.
Total(f) == MapThenSumSet(LAMBDA x : f[x].size, DOMAIN f)

\* What else is added up, as sizes.
Counts(stats) == [k \in DOMAIN stats |-> [size |-> stats[k].count]]
Differences(diff) == [k \in DOMAIN diff |-> [size |-> diff[k].sizeDiff]]

\* How often each trace of the snapshot counts for key k, and for how much.
Hits(snapshot, type, cumulative, k) ==
  [i \in DOMAIN snapshot |->
     LET keys == KeysOf(snapshot[i].traceback, type, cumulative)
     IN [size |-> Cardinality({j \in DOMAIN keys : keys[j] = k})]]

Charges(snapshot, type, cumulative, k) ==
  [i \in DOMAIN snapshot |->
     [size |-> snapshot[i].size * Hits(snapshot, type, cumulative, k)[i].size]]

\* The list of keys has every key, once, by decreasing size.
Listing(keys, size) ==
  /\ Len(keys) = Cardinality(DOMAIN size)
  /\ {keys[i] : i \in DOMAIN keys} = DOMAIN size
  /\ \A i \in 2 .. Len(keys) : size[keys[i]] <= size[keys[i - 1]]

\* Each group is the blocks of its key.
GroupsExact(snapshot, type, cumulative) ==
  LET stats == GroupBy(snapshot, type, cumulative)
  IN /\ \A k \in DOMAIN stats :
          /\ stats[k].count = Total(Hits(snapshot, type, cumulative, k))
          /\ stats[k].size = Total(Charges(snapshot, type, cumulative, k))
     /\ Listing(Statistics(snapshot, type, cumulative),
                [k \in DOMAIN stats |-> stats[k].size])

\* The groups are all the blocks; in cumulative mode none is smaller than
\* the blocks whose most recent frame is its own.
GroupsWhole(snapshot, type) ==
  LET stats == GroupBy(snapshot, type, FALSE)
  IN /\ Total(stats) = Total(snapshot)
     /\ Total(Counts(stats)) = Len(snapshot)
     /\ \A i \in DOMAIN snapshot : Key(snapshot[i].traceback, type) \in DOMAIN stats
     /\ type # "traceback" =>
          LET cumulated == GroupBy(snapshot, type, TRUE)
          IN \A k \in DOMAIN stats :
               k \in DOMAIN cumulated /\ cumulated[k].size >= stats[k].size

GroupsAddUp ==
  Taken => \A type \in {"traceback", "lineno", "filename"} :
    /\ \A cumulative \in {FALSE, type # "traceback"} :
         GroupsExact(Snapshotted, type, cumulative)
    /\ GroupsWhole(Snapshotted, type)

\* Snapshots the one just taken may be compared with.
Older ==
  LET old == [size : Sizes \cup {0},
              traceback : {Snapshotted[i].traceback : i \in DOMAIN list}
                            \cup {<<[file |-> UnknownText, lineno |-> 0]>>}]
  IN {<<>>} \cup {<<x>> : x \in old}

\* compare_to() loses nothing: the differences add up to the difference of
\* the totals, a key of either snapshot is there, with the size it had, and
\* the result goes from the biggest difference to the smallest.
DiffsWhole(saved, snapshot, type) ==
  LET old == GroupBy(saved, type, FALSE)
      new == GroupBy(snapshot, type, FALSE)
      diff == Compared(old, new)
  IN /\ DOMAIN diff = DOMAIN old \cup DOMAIN new
     /\ Total(Differences(diff)) = Total(snapshot) - Total(saved)
     /\ \A k \in DOMAIN old : diff[k].size - diff[k].sizeDiff = old[k].size
     /\ \A k \in DOMAIN new : diff[k].size = new[k].size
     /\ Listing(CompareTo(saved, snapshot, type, FALSE),
                [k \in DOMAIN diff |-> Abs(diff[k].sizeDiff)])

DiffsAddUp ==
  Taken => \A type \in {"traceback", "filename"}, saved \in Older :
    DiffsWhole(saved, Snapshotted, type)

\* Grouping and comparing snapshots lose no block (tracemalloc.py:147, :466).
StatisticsAddUp == GroupsAddUp /\ DiffsAddUp

=============================================================================
