CONSTANTS
  Threads = {net, main}
  Texts = {x1, x2, x3}
  NoText = NoText
  MaxToasts = 2
  Lifetime = 2
  MaxLag = 1
SPECIFICATION Spec
PROPERTIES
  NoticeShown
