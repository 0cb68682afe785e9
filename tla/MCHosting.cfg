SPECIFICATION LiveSpec
CONSTANTS
  b1 = b1
  s1 = s1
  s2 = s2
  Browsers = {b1}
  Strangers = {s1, s2}
  Capacity = 2
  Asked = {1, 2}
  Period = 2
  Never = Never
INVARIANT NeverOverfull
PROPERTIES AdvertPace HostIsFound
