--------------------------- MODULE MCConfiguration ---------------------------
(* Configurations for TLC: the default ones with one part varied at a time. *)
EXTENDS Configuration

DefaultPhy ==
  [usScSpacing |-> 50000, numUsSc |-> 1880, symbolsPerFrame |-> 6,
   usSpectralEfficiency |-> 10, usCpLen |-> 256, mapInterval |-> 2000000,
   cmtsMapProcTime |-> 200000, cmtsUsPipelineFactor |-> 1, cmUsPipelineFactor |-> 1,
   dsScSpacing |-> 50000, numDsSc |-> 3745, dsCpLen |-> 512, dsIntlvM |-> 3,
   ncpModulation |-> 4, cmtsDsPipelineFactor |-> 1, cmDsPipelineFactor |-> 1,
   maximumDistance |-> 800]

MCPhys ==
  {[DefaultPhy EXCEPT !.usCpLen = cp, !.symbolsPerFrame = k, !.mapInterval = m,
                      !.maximumDistance = d] :
     cp \in {96, 256, 640}, k \in {6, 9, 17}, m \in {500000, 2000000, 4000000},
     d \in {100, 175, 5000}}
  \cup {[DefaultPhy EXCEPT !.usScSpacing = s, !.numUsSc = 3760, !.dsScSpacing = s,
                           !.dsIntlvM = m, !.dsCpLen = cp] :
          s \in SymbolSpacings, m \in {1, 16, 17}, cp \in DsCpLens}

Base(rate) ==
  [AggregateServiceFlow(ServiceFlow(Classic), ServiceFlow(LowLatency))
     EXCEPT !.maxSustainedRate = rate, !.peakRate = 2 * rate]
MCUpstreams ==
  {[Base(rate) EXCEPT !.lowLatency.iaqmMaxThresh = th, !.lowLatency.iaqmRangeExponent = lg,
                      !.lowLatency.aqmDisable = off] :
     rate \in {0, 400, 2000, 50000}, th \in {0, 1, 65535}, lg \in {0, 10, 25, 26},
     off \in BOOLEAN}
  \cup {[Base(50000) EXCEPT !.lowLatency.guaranteedGrantRate = ggr,
                            !.lowLatency.guaranteedGrantInterval = ggi,
                            !.coupled = coupled, !.schedulingWeight = w] :
          ggr \in {1000, 5000}, ggi \in {0, 100, 1000, 60000},
          coupled \in {"true", "false", "unspecified"}, w \in {0, 100}}
  \cup {SingleServiceFlow([ServiceFlow(sfid) EXCEPT !.maxSustainedRate = rate]) :
          sfid \in {Classic, LowLatency}, rate \in {0, 20000}}
  \cup {[AggregateServiceFlow(c, l) EXCEPT !.maxSustainedRate = 20000] :
          c \in {NoFlow, ServiceFlow(Classic)}, l \in {NoFlow, ServiceFlow(LowLatency)}}
MCDownstreams ==
  {[Base(100000) EXCEPT !.qpLatencyThreshold = ql, !.queueProtectionEnable = on,
                        !.qpDrainRateExponent = lg] :
     ql \in {0, 500, 65535}, on \in {"true", "false", "unspecified"}, lg \in {0, 17, 31}}
  \cup {SingleServiceFlow([ServiceFlow(Classic) EXCEPT !.maxSustainedRate = 20000])}
  \cup {[Base(100000) EXCEPT !.lowLatency.maxSustainedRate = 1000]}

\* Frames that are no whole number of microseconds, with guaranteed grants.
MCOddFrames == {[DefaultPhy EXCEPT !.usCpLen = cp, !.symbolsPerFrame = k] :
                  cp \in {96, 160}, k \in {6, 7}}
MCGuaranteed == {u \in MCUpstreams : u.lowLatency.guaranteedGrantRate > 0
                                        /\ u.coupled = "unspecified"}

MCCases ==
  [phy : MCOddFrames, upstream : MCGuaranteed, downstream : {Base(100000)}] \cup
  [phy : MCPhys, upstream : {Base(50000)}, downstream : {Base(100000)}]
  \cup [phy : {DefaultPhy}, upstream : MCUpstreams, downstream : {Base(100000)}]
  \cup [phy : {DefaultPhy}, upstream : {Base(50000)}, downstream : MCDownstreams]
  \cup [phy : {DefaultPhy},
        upstream : {SingleServiceFlow([ServiceFlow(Classic) EXCEPT !.maxSustainedRate = 20000])},
        downstream : MCDownstreams]
=============================================================================
