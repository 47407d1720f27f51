---------------------------- MODULE PollingConfig ----------------------------
(***************************************************************************)
(* What XPC_apply_config (polling/xfinity_polling_config.cpp) makes of a   *)
(* configuration document, as functions from settings to settings.         *)
(*                                                                         *)
(* A tag has a name, attributes and children.  A period is a record of its *)
(* numbers; URLs only tell "http://" ones, the default and others apart,   *)
(* and whether they end in the camera's MAC address.  The set_* functions  *)
(* of the vendor's library store a value in All_Conf and mark it changed,  *)
(* or fail.  Object and tamper detection are compiled in, and so is        *)
(* XFINITY_SUPPORT, without which the file does not compile.               *)
(*                                                                         *)
(* Settings c: c.chg says that something changed, c.broken names what      *)
(* fails while the document is applied.  md_mode and event_quiet_time are  *)
(* kept in usr_config, outside All_Conf.                                   *)
(***************************************************************************)
EXTENDS Integers, Sequences

Seqs == INSTANCE SequencesExt
Sets == INSTANCE FiniteSetsExt

CONSTANTS
  EVENT_TRIGGER_ITEM_NUMBER_MAX,  \* slots of the event table
  ComcastPartner,                 \* what isComcastPartner returns
  Texts                           \* strings in documents and settings

ASSUME SlotsAssumption == EVENT_TRIGGER_ITEM_NUMBER_MAX \in Nat \ {0}
ASSUME PartnerAssumption == ComcastPartner \in BOOLEAN
ASSUME TextsAssumption ==
  {"", "default", "indoor", "outdoor", "TS", "MP4",
   "XFINITY_MOTION", "XFINITY_MOTION_PEOPLE", "XFINITY_MOTION_TAMPER"} \subseteq Texts

-----------------------------------------------------------------------------
(* Reading attributes.  getAttributeValue leaves the zeroed buffer alone    *)
(* when there is no such attribute, and the buffer itself is never NULL:    *)
(* a missing attribute reads as "", never as "not there".                   *)

NoAttributes(tag) == DOMAIN tag.attrs = {}
Has(tag, a)       == a \in DOMAIN tag.attrs
Text(tag, a)      == IF Has(tag, a) THEN tag.attrs[a] ELSE ""
Number(tag, a)    == IF Has(tag, a) THEN tag.attrs[a] ELSE 0

NoUrl      == [to |-> "", mac |-> FALSE]
DefaultUrl == [to |-> "default", mac |-> FALSE]
IsHttp(u)  == u.to = "http"
Url(tag)   == IF Has(tag, "url") THEN tag.attrs.url ELSE NoUrl

\* The year counts 365 months.
XPC_parse_period_time_iso8601(p) ==
  p.s + 60 * (p.m + 60 * (p.h + 24 * (p.D + 30 * (p.M + 365 * p.Y))))

\* "" is no period: 0 seconds.
Period(tag, a) ==
  IF Has(tag, a) THEN XPC_parse_period_time_iso8601(tag.attrs[a]) ELSE 0

\* The value set last decides whether anything is marked.
Set_LastDecides(c, f, value) ==
  IF f \in c.broken THEN c ELSE [c EXCEPT ![f] = value, !.chg = c[f] # value]

\* set_*(value, 1, msg, pconf, NULL)
Set(c, f, value) ==
  IF f \in c.broken THEN c
  ELSE [c EXCEPT ![f] = value, !.chg = @ \/ c[f] # value]

\* Without a MAC address the caller's zeroed buffer is the result.
XPC_append_mac_to_url(c, u) ==
  IF "mac" \in c.broken THEN NoUrl ELSE [u EXCEPT !.mac = TRUE]

\* Only a URL that is there and is not http:// is stored.
SetUrl(c, f, u) ==
  IF u = NoUrl \/ IsHttp(u) THEN c ELSE Set(c, f, XPC_append_mac_to_url(c, u))

-----------------------------------------------------------------------------
(* <config>: how to poll *)

XPC_parse_config_attr(c, tag) ==
  IF NoAttributes(tag) \/ tag.name # "config" THEN c
  ELSE LET redirect == IsHttp(Url(tag))
           c1 == Set(c, "polling_interval", Period(tag, "interval"))
           c2 == Set(c1, "polling_url", IF redirect THEN DefaultUrl ELSE Url(tag))
       IN  Set(c2, "polling_auth", IF redirect THEN "" ELSE Text(tag, "auth"))

(* <system>: the thresholds between day and night *)

XPC_parse_threshold_attr(c, tag) ==
  IF NoAttributes(tag) THEN c
  ELSE Set(c, "dn_threshold", <<Number(tag, "day2night"), Number(tag, "night2day")>>)

XPC_parse_system_segment(c, tag) ==
  LET Lux(c1, lux) == IF lux.name = "threshold" THEN XPC_parse_threshold_attr(c1, lux) ELSE c1
      System(c1, t) == IF t.name = "lux" THEN Seqs!FoldLeft(Lux, c1, t.children) ELSE c1
  IN  Seqs!FoldLeft(System, c, tag.children)

(* <detection>: motion detection *)

Sensitivity(n) == (IF n \in 1..59 \/ n > 100 THEN 60 ELSE n) \div 10

XPC_parse_motion_attr(c, tag) ==
  IF NoAttributes(tag) THEN c
  ELSE LET on == Text(tag, "enabled") = "true"
           env == Text(tag, "env")
           c1 == IF "md_mode" \in c.broken THEN c ELSE [c EXCEPT !.md_mode = on]
           c2 == Set(c1, "mot", on)
           c3 == IF env \in {"indoor", "outdoor"} THEN Set(c2, "scene", env) ELSE c2
       IN  Set(c3, "sensitivity", Sensitivity(Number(tag, "sensitivity")))

XPC_parse_motion_segment(c, tag) ==
  LET Motion(c1, t) == IF t.name = "motion" THEN XPC_parse_motion_attr(c1, t) ELSE c1
  IN  Seqs!FoldLeft(Motion, c, tag.children)

-----------------------------------------------------------------------------
(* <cvr>: recording *)

XPC_parse_cvr_attr(c, tag) ==
  IF NoAttributes(tag) THEN c
  ELSE LET c1 == Set(c, "enable", Text(tag, "enabled") = "true")
           c2 == SetUrl(c1, "video_address", Url(tag))
           c3 == Set(c2, "video_auth", Text(tag, "auth"))
       IN  Set(c3, "video_timeout", Period(tag, "timeout"))

XPC_parse_segments_attr(c, tag) ==
  IF NoAttributes(tag) \/ tag.name # "segments" THEN c
  ELSE LET c1 == Set(c, "video_duration", Period(tag, "duration"))
       IN  Set(c1, "video_format", IF Text(tag, "format") = "video/mp2t" THEN "TS" ELSE "MP4")

Resolutions == {"1280x720", "640x480", "320x240"}

\* Another resolution is given to its setter as "", which is taken to fail.
XPC_parse_h264_attr(c, tag) ==
  IF NoAttributes(tag) THEN c
  ELSE LET r == Text(tag, "resolution")
           fps == Number(tag, "fps")
           c1 == IF r \in Resolutions THEN Set(c, "resolution", r) ELSE c
           c2 == IF fps \in 1..30 THEN Set(c1, "frate", fps) ELSE c1
       IN  Set(c2, "gov_length", Number(tag, "gop"))

\* abr_bitrate before any <LBR> was seen: an uninitialized local, any value.
Uninitialized == [no |-> -1, low |-> -1, mid |-> -1, high |-> -1]
ZeroBitrate   == [no |-> 0, low |-> 0, mid |-> 0, high |-> 0]

\* What is missing is derived from what is there.
XPC_parse_lbr_attr(tag) ==
  IF NoAttributes(tag) THEN ZeroBitrate
  ELSE LET high == Number(tag, "max")
           mid == IF Number(tag, "med") > 0 THEN Number(tag, "med") ELSE (high * 70) \div 100
           low == IF Number(tag, "low") > 0 THEN Number(tag, "low") ELSE (mid * 70) \div 100
       IN  [no |-> Number(tag, "min"), low |-> low, mid |-> mid, high |-> high]

\* The bit rates are set for the current resolution after every child, be it
\* <H264>, <LBR> or the blanks between them.
XPC_parse_cvr_segment(c, tag) ==
  LET Child(s, t) ==
        LET bitrate == IF t.name = "LBR" THEN XPC_parse_lbr_attr(t) ELSE s.bitrate
            c1 == IF t.name = "H264" THEN XPC_parse_h264_attr(s.c, t) ELSE s.c
        IN  [bitrate |-> bitrate,
             c |-> Set(c1, "abr", [c1.abr EXCEPT ![c1.resolution] = bitrate])]
      Segments(s, t) ==
        IF t.name # "segments" THEN s
        ELSE Seqs!FoldLeft(Child, [s EXCEPT !.c = XPC_parse_segments_attr(@, t)], t.children)
      start == [bitrate |-> Uninitialized, c |-> XPC_parse_cvr_attr(c, tag)]
  IN  Seqs!FoldLeft(Segments, start, tag.children).c

-----------------------------------------------------------------------------
(* <metrics>: what is reported; a bit mask is the set of its bits *)

Dataset1 == {"model", "serial", "mac", "firmware", "wired", "ssid", "radio", "stream"}
Dataset2 == {"cpu", "memory", "snr"}
Dataset3 == {"rssi"}

ChildNames(tag) == {tag.children[i].name : i \in DOMAIN tag.children}

XPC_parse_dataset1_disabled(enable, tag) == enable \ (ChildNames(tag) \cap Dataset1)
XPC_parse_dataset2_disabled(enable, tag) == enable \ (ChildNames(tag) \cap Dataset2)
XPC_parse_dataset3_disabled(enable, tag) == enable \ (ChildNames(tag) \cap Dataset3)

\* A field of dataset_info[i], with chg_flag.metrics_chg.
SetDataset(c, i, f, value) ==
  [c EXCEPT !.dataset[i][f] = value, !.chg = @ \/ c.dataset[i][f] # value]

XPC_parse_dataset_attr(c, tag, i) ==
  IF NoAttributes(tag) THEN c
  ELSE LET u  == Url(tag)
           c1 == SetDataset(c, i, "interval", Period(tag, "interval"))
           c2 == IF u = NoUrl \/ IsHttp(u) THEN c1
                 ELSE SetDataset(c1, i, "url", XPC_append_mac_to_url(c, u))
           c3 == SetDataset(c2, i, "auth", Text(tag, "auth"))
       IN  SetDataset(c3, i, "timeout", Period(tag, "timeout"))

\* Everything is reported that no <disabled> of the data set names.
XPC_parse_metrics_segment(c, tag) ==
  LET Disabled(i, enable, t) ==
        IF t.name # "disabled" THEN enable
        ELSE CASE i = 1 -> XPC_parse_dataset1_disabled(enable, t)
               [] i = 2 -> XPC_parse_dataset2_disabled(enable, t)
               [] i = 3 -> XPC_parse_dataset3_disabled(enable, t)
      Enable(i, all, t) == Seqs!FoldLeft(LAMBDA e, d : Disabled(i, e, d), all, t.children)
      Dataset(c1, t) ==
        LET One(i, all) ==
              SetDataset(XPC_parse_dataset_attr(c1, t, i), i, "enabled", Enable(i, all, t))
        IN  CASE t.name = "dataset1" -> One(1, Dataset1)
              [] t.name = "dataset2" -> One(2, Dataset2)
              [] t.name = "dataset3" -> One(3, Dataset3)
              [] OTHER -> c1
  IN  Seqs!FoldLeft(Dataset, c, tag.children)

-----------------------------------------------------------------------------
(* <events>: the table of event triggers, shared with the camera's own     *)
(* events.  fixed stands for the six members that are always given the     *)
(* same values: type, action, schedule, file format, lengths and source.   *)

NoItem == [event_name |-> "", enable |-> 0, interval |-> 0, fixed |-> FALSE]
XPC_ENVETN_INTERVAL_DEF == 30

\* The last slot of the table is never looked at.
Slots == 1 .. EVENT_TRIGGER_ITEM_NUMBER_MAX - 1

\* The first free slot, whether or not the event has one already.
EventSlot_FirstFree(items, name) ==
  LET evt  == {i \in Slots : items[i].event_name = name}
      free == {i \in Slots : items[i].event_name = "" /\ items[i].enable = 0}
  IN  IF free # {} THEN {Sets!Min(free)} ELSE IF evt # {} THEN {Sets!Min(evt)} ELSE {}

\* The slot of the event, else the first free one, else none.
EventSlot(items, name) ==
  LET evt  == {i \in Slots : items[i].event_name = name}
      free == {i \in Slots : items[i].event_name = "" /\ items[i].enable = 0}
  IN  IF evt # {} THEN {Sets!Min(evt)} ELSE IF free # {} THEN {Sets!Min(free)} ELSE {}

\* -1 stands for "leave it": the item keeps its value, a new one has a default.
SaveItem(item, name, enable, interval) ==
  LET old == IF item.event_name = name THEN item
             ELSE [NoItem EXCEPT !.interval = XPC_ENVETN_INTERVAL_DEF]
  IN  [event_name |-> name,
       enable     |-> IF enable = -1 THEN old.enable ELSE enable,
       interval   |-> IF interval = -1 THEN old.interval ELSE interval,
       fixed      |-> TRUE]

AnyEnabled(items) == \E i \in Slots : items[i].enable # 0

\* The overall switch follows the event at hand only.
XPC_save_event_entry_OwnTrigger(c, enable, interval, name) ==
  LET slot  == EventSlot(c.items, name)
      items == [i \in DOMAIN c.items |->
                  IF i \in slot THEN SaveItem(c.items[i], name, enable, interval) ELSE c.items[i]]
      c1    == [c EXCEPT !.items = items, !.chg = @ \/ items # c.items]
  IN  IF ComcastPartner THEN Set(c1, "trig", enable = 1) ELSE c1

XPC_save_event_entry(c, enable, interval, name) ==
  LET slot  == EventSlot(c.items, name)
      items == [i \in DOMAIN c.items |->
                  IF i \in slot THEN SaveItem(c.items[i], name, enable, interval) ELSE c.items[i]]
      c1    == [c EXCEPT !.items = items, !.chg = @ \/ items # c.items]
  IN  IF ComcastPartner THEN Set(c1, "trig", AnyEnabled(items)) ELSE c1

XPC_parse_events_motion_attr(tag, enabled) ==
  IF NoAttributes(tag) THEN enabled ELSE IF Text(tag, "enabled") = "true" THEN 1 ELSE 0
\* The same statements for the other two events.
XPC_parse_events_human_attr(tag, enabled)  == XPC_parse_events_motion_attr(tag, enabled)
XPC_parse_events_tamper_attr(tag, enabled) == XPC_parse_events_motion_attr(tag, enabled)

\* The quiet interval goes to usr_config at once.
XPC_parse_events_attr(c, tag) ==
  IF NoAttributes(tag) THEN c
  ELSE LET c1 == SetUrl(c, "http_url", Url(tag))
           c2 == Set(c1, "http_auth", Text(tag, "auth"))
           c3 == [c2 EXCEPT !.event_quiet_time = Period(tag, "quietInterval")]
       IN  Set(c3, "http_event_timeout", Period(tag, "timeout"))

\* Human detection is switched with "%d" of a flag that is -1 without <human>.
\* If that fails the tamper event is not saved.
XPC_parse_events_segment(c, tag) ==
  LET interval == IF NoAttributes(tag) THEN -1 ELSE Period(tag, "quietInterval")
      Flag(f, t) ==
        CASE t.name = "motion" -> [f EXCEPT !.motion = XPC_parse_events_motion_attr(t, @)]
          [] t.name = "human"  -> [f EXCEPT !.human = XPC_parse_events_human_attr(t, @)]
          [] t.name = "tamper" -> [f EXCEPT !.tamper = XPC_parse_events_tamper_attr(t, @)]
          [] OTHER -> f
      flag == Seqs!FoldLeft(Flag, [motion |-> -1, human |-> -1, tamper |-> -1], tag.children)
      c1 == XPC_parse_events_attr(c, tag)
      c2 == XPC_save_event_entry(c1, flag.motion, interval, "XFINITY_MOTION")
      c3 == XPC_save_event_entry(c2, flag.human, interval, "XFINITY_MOTION_PEOPLE")
      c4 == Set(c3, "human_detect", flag.human)
  IN  IF "human_detect" \in c.broken THEN c3
      ELSE XPC_save_event_entry(c4, flag.tamper, interval, "XFINITY_MOTION_TAMPER")

-----------------------------------------------------------------------------
\* What a document makes of the settings c when the calls in broken fail.
\* No failure stops it: the results of the parsers are ignored.
XPC_apply_config(c, root, broken) ==
  LET Segment(c1, t) ==
        CASE t.name = "system"    -> XPC_parse_system_segment(c1, t)
          [] t.name = "cvr"       -> XPC_parse_cvr_segment(c1, t)
          [] t.name = "events"    -> XPC_parse_events_segment(c1, t)
          [] t.name = "detection" -> XPC_parse_motion_segment(c1, t)
          [] t.name = "metrics"   -> XPC_parse_metrics_segment(c1, t)
          [] OTHER -> c1
      start == [c EXCEPT !.chg = FALSE, !.broken = broken]
  IN  Seqs!FoldLeft(Segment, XPC_parse_config_attr(start, root), root.children)

-----------------------------------------------------------------------------
(* What the settings hold, and what the XML parser hands over.             *)

Urls     == [to : Texts, mac : BOOLEAN]
Periods  == [Y : Nat, M : Nat, D : Nat, h : Nat, m : Nat, s : Nat]
Bitrates == [no : Int, low : Int, mid : Int, high : Int]
Items    == [event_name : Texts, enable : Int, interval : Int, fixed : BOOLEAN]
Datasets == [interval : Nat, url : Urls, auth : Texts, timeout : Nat,
             enabled : SUBSET (Dataset1 \cup Dataset2 \cup Dataset3)]

\* What may fail: reading the MAC address, and the setters a document gets to.
Breakable ==
  {"mac", "polling_interval", "polling_url", "polling_auth", "dn_threshold", "mot", "md_mode",
   "scene", "sensitivity", "enable", "video_address", "video_auth", "video_timeout",
   "video_duration", "video_format", "resolution", "frate", "gov_length", "abr",
   "http_url", "http_auth", "http_event_timeout", "trig", "human_detect"}

FieldTypes ==
  [polling_interval |-> Nat, polling_url |-> Urls, polling_auth |-> Texts,
   dn_threshold |-> Int \X Int, mot |-> BOOLEAN, md_mode |-> BOOLEAN, scene |-> Texts,
   sensitivity |-> Int, enable |-> BOOLEAN, video_address |-> Urls, video_auth |-> Texts,
   video_timeout |-> Nat, video_duration |-> Nat, video_format |-> Texts,
   resolution |-> Resolutions, frate |-> Int, gov_length |-> Int,
   abr |-> [Resolutions -> Bitrates], dataset |-> [1..3 -> Datasets],
   http_url |-> Urls, http_auth |-> Texts, http_event_timeout |-> Nat, event_quiet_time |-> Nat,
   items |-> [1..EVENT_TRIGGER_ITEM_NUMBER_MAX -> Items], trig |-> BOOLEAN, human_detect |-> Int,
   chg |-> BOOLEAN, broken |-> SUBSET Breakable]

Fields == DOMAIN FieldTypes

AreSettings(c) ==
  /\ c = [f \in Fields |-> c[f]]
  /\ \A f \in Fields : c[f] \in FieldTypes[f]

AttributeTypes ==
  [interval |-> Periods, quietInterval |-> Periods, duration |-> Periods, timeout |-> Periods,
   url |-> Urls, auth |-> Texts, enabled |-> Texts, env |-> Texts, format |-> Texts,
   resolution |-> Texts, day2night |-> Int, night2day |-> Int, sensitivity |-> Int,
   fps |-> Int, gop |-> Int, min |-> Int, med |-> Int, low |-> Int, max |-> Int]

IsTag(t) ==
  /\ \A a \in DOMAIN t.attrs : a \in DOMAIN AttributeTypes /\ t.attrs[a] \in AttributeTypes[a]
  /\ Len(t.children) \in Nat /\ DOMAIN t.children = 1 .. Len(t.children)

Children(t) == {t.children[i] : i \in DOMAIN t.children}

\* Nothing is read below the fourth level.
IsDocument(root) ==
  /\ IsTag(root)
  /\ \A t \in Children(root) :
       IsTag(t) /\ \A u \in Children(t) : IsTag(u) /\ \A v \in Children(u) : IsTag(v)
=============================================================================
