------------------------------ MODULE MCPolling ------------------------------
(* Polling for TLC: the settings before, and two documents that between    *)
(* them use every tag, change values back and forth and leave attributes out.*)
EXTENDS Polling, TLC

Tag(name, attrs, children) == [name |-> name, attrs |-> attrs, children |-> children]
NoAttrs == [x \in {} |-> 0]
Blank == Tag("text", NoAttrs, <<>>)
Time(minutes, seconds) == [Y |-> 0, M |-> 0, D |-> 0, h |-> 0, m |-> minutes, s |-> seconds]
Site(name) == [to |-> name, mac |-> FALSE]

MCInitial ==
  [polling_interval |-> 300, polling_url |-> Site("a"), polling_auth |-> "key",
   dn_threshold |-> <<1, 2>>, mot |-> FALSE, md_mode |-> FALSE, scene |-> "indoor",
   sensitivity |-> 6, enable |-> FALSE, video_address |-> NoUrl, video_auth |-> "",
   video_timeout |-> 0, video_duration |-> 15, video_format |-> "MP4",
   resolution |-> "640x480", frate |-> 10, gov_length |-> 10,
   abr |-> [r \in Resolutions |-> ZeroBitrate],
   dataset |-> [i \in 1..3 |-> [interval |-> 0, url |-> NoUrl, auth |-> "", timeout |-> 0,
                                enabled |-> {}]],
   http_url |-> NoUrl, http_auth |-> "", http_event_timeout |-> 0, event_quiet_time |-> 0,
   items |-> <<[NoItem EXCEPT !.event_name = "owner"], NoItem, NoItem, NoItem, NoItem, NoItem>>,
   trig |-> FALSE, human_detect |-> 0, chg |-> FALSE, broken |-> {}]

On == [enabled |-> "true"]
Off == [enabled |-> "false"]

\* Everything on; blanks between the tags.
DocOn == Tag("config", [interval |-> Time(5, 0), url |-> Site("a"), auth |-> "key"], <<
  Tag("system", NoAttrs, <<Tag("lux", NoAttrs,
    <<Tag("threshold", [day2night |-> 3, night2day |-> 4], <<>>)>>)>>),
  Tag("cvr", [enabled |-> "true", url |-> Site("v"), auth |-> "key", timeout |-> Time(0, 5)], <<
    Tag("segments", [duration |-> Time(0, 16), format |-> "video/mp2t"], <<
      Blank, Tag("H264", [resolution |-> "1280x720", fps |-> 15, gop |-> 15], <<>>),
      Tag("LBR", [min |-> 10, max |-> 100], <<>>)>>)>>),
  Tag("events", [url |-> Site("e"), auth |-> "key", quietInterval |-> Time(0, 30)], <<
    Tag("motion", On, <<>>), Tag("human", Off, <<>>), Tag("tamper", On, <<>>)>>),
  Tag("detection", NoAttrs, <<
    Tag("motion", [enabled |-> "true", env |-> "outdoor", sensitivity |-> 80], <<>>)>>),
  Tag("metrics", NoAttrs, <<
    Tag("dataset1", [interval |-> Time(1, 0), url |-> Site("m")],
      <<Tag("disabled", NoAttrs, <<Tag("mac", NoAttrs, <<>>)>>)>>),
    Tag("dataset2", NoAttrs, <<Tag("disabled", NoAttrs, <<Tag("cpu", NoAttrs, <<>>)>>)>>),
    Tag("dataset3", [auth |-> "key"], <<>>)>>)>>)

\* Polls within ten seconds, events off or left alone, LBR before H264.
DocOff == Tag("config", [interval |-> Time(0, 10), url |-> Site("http"), auth |-> "key"], <<
  Tag("cvr", Off, <<Tag("segments", [format |-> "video/mp4"], <<
    Tag("LBR", [min |-> 10, max |-> 200, med |-> 50], <<>>),
    Tag("H264", [resolution |-> "320x240", gop |-> 5], <<>>)>>)>>),
  Tag("events", NoAttrs, <<Tag("motion", Off, <<>>), Tag("tamper", NoAttrs, <<>>)>>),
  Tag("detection", NoAttrs, <<Tag("motion", Off, <<>>)>>)>>)

MCDocs == {DocOn, DocOff}
MCBroken == {{}, {"human_detect"}}
MCTexts == STRING
MCRetryAttributes == {[min |-> 8, max |-> 0]}
=============================================================================
