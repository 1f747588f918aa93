\* Two read loops, three messages, and the scraper.
CONSTANTS
    Session = {s1, s2}
    MaxMessages = 3
    MaxLatency = 2
    MaxDepth = 2
SPECIFICATION MetricsSpec
SYMMETRY Symmetry
INVARIANTS DepthIsHighest SnapshotAddsUp
